---- MODULE Spec2Model ----
(***************************************************************************)
(* Consistent Overhead Byte Stuffing (github.com/pdgendt/cobs).            *)
(*                                                                         *)
(* The options API of cobs.go (lines 1-290): an Encoder that collects      *)
(* groups in e.buf and writes them to its io.Writer, a Decoder that writes *)
(* decoded bytes one at a time to its io.Writer, and the one-shot helpers  *)
(* Encode and Decode that wrap them around a bytes.Buffer.                 *)
(*                                                                         *)
(* A byte is a number in 0..255; a byte slice is a sequence of bytes; an   *)
(* error value is a string, Nil standing for Go's nil error.               *)
(***************************************************************************)
EXTENDS Integers, Sequences, FiniteSets, TLC

VARIABLES
    harness,    \* which caller drives the package in this behaviour
    opts,       \* the configuration: [sentinel, reduced, delimiterOnClose]
    data,       \* one-shot: the byte slice handed to Encode or to Decode
    encoded,    \* one-shot: the result of Encode, per reduced flag
    decoded,    \* one-shot: the last Decode call and its result
    e,          \* streaming: the Encoder object (with its sink e.w)
    d,          \* streaming: the Decoder object (with its sink d.w)
    payload,    \* streaming: the bytes handed to the current frame so far
    nframes,    \* streaming: the number of frames completed
    pc,         \* streaming: where the caller is within the current frame
    last        \* streaming: the last call made and what it returned

vars == <<harness, opts, data, encoded, decoded, e, d, payload, nframes, pc, last>>

----------------------------------------------------------------------------
(* Bytes *)

ByteWidth == 256

Byte == 0 .. (ByteWidth - 1)

\* const Delimiter = byte(0x00)
Delimiter == 0

\* The literal 0xff of Encoder.WriteByte and of the Decoder's code marker.
FullCode == 255

RECURSIVE BitXor(_, _)
\* Go's ^ on two bytes.
BitXor(a, b) ==
    IF a = 0 THEN b
    ELSE IF b = 0 THEN a
    ELSE ((a + b) % 2) + 2 * BitXor(a \div 2, b \div 2)

\* Go's ++ and -- on a byte wrap around.
Inc(b) == (b + 1) % ByteWidth
Dec(b) == (b + ByteWidth - 1) % ByteWidth

\* The error values of the package, and the nil error.
Nil == "nil"
EOD == "EOD"
ErrUnexpectedEOD == "unexpected EOD"
ErrIncompleteFrame == "frame incomplete"

----------------------------------------------------------------------------
(* Options *)

WithSentinel(sentinel) == [opt |-> "sentinel", val |-> sentinel]
WithReduced(enabled) == [opt |-> "reduced", val |-> enabled]
WithDelimiterOnClose(enabled) == [opt |-> "delimiterOnClose", val |-> enabled]

\* Calling an option on a config.
ApplyOption(o, c) ==
    CASE o.opt = "sentinel" -> [c EXCEPT !.sentinel = o.val]
      [] o.opt = "reduced" -> [c EXCEPT !.reduced = o.val]
      [] o.opt = "delimiterOnClose" -> [c EXCEPT !.delimiterOnClose = o.val]

RECURSIVE ApplyOptions(_, _)
\* for _, opt := range opts { opt(&config) }
ApplyOptions(os, c) ==
    IF os = <<>> THEN c
    ELSE ApplyOptions(Tail(os), ApplyOption(Head(os), c))

\* config{sentinel: Delimiter}: the other fields are Go's zero values.
DefaultConfig == [sentinel |-> Delimiter, delimiterOnClose |-> FALSE, reduced |-> FALSE]

----------------------------------------------------------------------------
(* Sinks: the io.Writer implementations the package is used with *)

\* bytes.NewBuffer(make([]byte, 0, n)): an empty buffer; writes records each
\* Write call's slice, in order.
NewBuffer == [kind |-> "Buffer", writes |-> <<>>]

\* pr, pw := io.Pipe(): writes holds the Write calls not yet read.
NewPipe == [kind |-> "Pipe", writes |-> <<>>]

RECURSIVE ConcatRange(_, _, _)
\* ss[lo] \o ... \o ss[hi], split in halves.
ConcatRange(ss, lo, hi) ==
    IF lo > hi THEN <<>>
    ELSE IF lo = hi THEN ss[lo]
    ELSE ConcatRange(ss, lo, (lo + hi) \div 2)
         \o ConcatRange(ss, (lo + hi) \div 2 + 1, hi)

Concat(ss) == ConcatRange(ss, 1, Len(ss))

\* buf.Bytes()
Bytes(w) == Concat(w.writes)

\* The errors a failing writer is made with: io.EOF and io.ErrClosedPipe.
SinkErrors == {"EOF", "io: read/write on closed pipe"}

\* &LimitedWriter{io.Discard, n, err}: N is the number of bytes still taken,
\* Err the error returned once the limit is reached; writes holds the slices
\* handed on to W, and log what each Write call returned.
NewLimitedWriter(n, err) ==
    [kind |-> "Limited", writes |-> <<>>, N |-> n, Err |-> err, log |-> <<>>]

\* LimitedWriter.Write once the limit is known not to be reached: q is p cut
\* to the limit; W takes it and the count of q is returned with a nil error.
LimitedTake(w, q) ==
    [w |-> [w EXCEPT !.writes = Append(@, q), !.N = @ - Len(q),
                     !.log = Append(@, Nil)],
     n |-> Len(q), err |-> Nil]

LimitedWrite(w, p) ==
    IF w.N < 1
    THEN [w |-> [w EXCEPT !.log = Append(@, w.Err)], n |-> 0, err |-> w.Err]
    ELSE IF w.N < Len(p) THEN LimitedTake(w, SubSeq(p, 1, w.N))
    ELSE LimitedTake(w, p)

\* w.Write(p) on a bytes.Buffer or on the write end of an io.Pipe, which take
\* the whole of p, or on a LimitedWriter.  These are the writers a Decoder is
\* given here.
SinkWrite(w, p) ==
    IF w.kind = "Limited" THEN LimitedWrite(w, p)
    ELSE [w |-> [w EXCEPT !.writes = Append(@, p)], n |-> Len(p), err |-> Nil]

----------------------------------------------------------------------------
(* Decoder *)

\* A method's result is a record: the object after the call (d or e), the
\* error it returned and, for Write, the count n.  Each step of a method that
\* depends on the result of an earlier step is an operator taking that result.

NewDecoder(w, os) ==
    LET c == ApplyOptions(os, DefaultConfig)
    IN  [kind |-> "Decoder",
         sentinel |-> c.sentinel,
         delimiterOnClose |-> c.delimiterOnClose,
         reduced |-> c.reduced,
         w |-> w,
         codeIndex |-> 0,
         code |-> FullCode]

\* A faulty flushReduced: the pending byte is dropped instead of written.
DecoderFlushReducedNoWrite(dd) ==
    IF dd.reduced /\ dd.codeIndex > 0
    THEN [d |-> [dd EXCEPT !.codeIndex = 0], err |-> Nil]
    ELSE [d |-> dd, err |-> Nil]

\* A faulty flushReduced: d.codeIndex = 0 is missing after the write.
DecoderFlushReducedKeep(dd) ==
    IF dd.reduced /\ dd.codeIndex > 0
    THEN [d |-> [dd EXCEPT !.w = SinkWrite(dd.w, <<dd.code>>).w], err |-> Nil]
    ELSE [d |-> dd, err |-> Nil]

\* A faulty flushReduced: the length byte is taken for the last data byte
\* only when a single data byte is owed.
DecoderFlushReducedLast(dd) ==
    IF dd.reduced /\ dd.codeIndex = 1
    THEN [d |-> [dd EXCEPT !.w = SinkWrite(dd.w, <<dd.code>>).w, !.codeIndex = 0],
          err |-> Nil]
    ELSE [d |-> dd, err |-> Nil]

DecoderFlushReduced(dd) ==
    IF dd.reduced /\ dd.codeIndex > 0
    THEN LET r == SinkWrite(dd.w, <<dd.code>>)
         IN  IF r.err # Nil
             THEN [d |-> [dd EXCEPT !.w = r.w], err |-> r.err]
             ELSE [d |-> [dd EXCEPT !.w = r.w, !.codeIndex = 0], err |-> Nil]
    ELSE [d |-> dd, err |-> Nil]

\* A faulty end of frame: d.code is not reset to 0xff.
DecoderSentinelNoReset(f) ==
    IF f.err # Nil THEN f
    ELSE IF f.d.codeIndex # 0 THEN [d |-> f.d, err |-> ErrUnexpectedEOD]
    ELSE [d |-> f.d, err |-> EOD]

\* A faulty end of frame: d.codeIndex is not looked at.
DecoderSentinelAlwaysEOD(f) ==
    IF f.err # Nil THEN f
    ELSE [d |-> [f.d EXCEPT !.code = FullCode], err |-> EOD]

\* A faulty end of frame: d.code is reset to the Delimiter, not to 0xff.
DecoderSentinelZeroCode(f) ==
    IF f.err # Nil THEN f
    ELSE IF f.d.codeIndex # 0 THEN [d |-> f.d, err |-> ErrUnexpectedEOD]
    ELSE [d |-> [f.d EXCEPT !.code = Delimiter], err |-> EOD]

\* A faulty end of frame: an unexpected sentinel drops the interrupted group,
\* so that the Decoder starts afresh behind it.
DecoderSentinelAbandon(f) ==
    IF f.err # Nil THEN f
    ELSE IF f.d.codeIndex # 0
         THEN [d |-> [f.d EXCEPT !.code = FullCode, !.codeIndex = 0],
               err |-> ErrUnexpectedEOD]
    ELSE [d |-> [f.d EXCEPT !.code = FullCode], err |-> EOD]

\* WriteByte on a sentinel, after flushReduced has returned f.
DecoderSentinel(f) ==
    IF f.err # Nil THEN f
    ELSE IF f.d.codeIndex # 0 THEN [d |-> f.d, err |-> ErrUnexpectedEOD]
    ELSE [d |-> [f.d EXCEPT !.code = FullCode], err |-> EOD]

\* A faulty WriteByte: the error of d.w.Write on a data byte is dropped.
DecoderDataIgnored(dd, c) ==
    [d |-> [dd EXCEPT !.w = SinkWrite(dd.w, <<c>>).w, !.codeIndex = Dec(@)],
     err |-> Nil]

\* A faulty WriteByte: the Delimiter that follows a group is written as soon
\* as the last data byte of the group has arrived.
DecoderDataEager(dd, c) ==
    IF dd.codeIndex = 1 /\ dd.code # FullCode
    THEN [d |-> [dd EXCEPT !.w = SinkWrite(SinkWrite(dd.w, <<c>>).w, <<Delimiter>>).w,
                           !.codeIndex = 0,
                           !.code = FullCode],
          err |-> Nil]
    ELSE [d |-> [dd EXCEPT !.w = SinkWrite(dd.w, <<c>>).w, !.codeIndex = Dec(@)],
          err |-> Nil]

\* A faulty WriteByte: the data byte is written from a scratch slice of two
\* bytes.
DecoderDataWide(dd, c) ==
    [d |-> [dd EXCEPT !.w = SinkWrite(dd.w, <<c, Delimiter>>).w,
                      !.codeIndex = Dec(@)],
     err |-> Nil]

\* WriteByte on a data byte of the current group.
DecoderData(dd, c) ==
    LET r == SinkWrite(dd.w, <<c>>)
    IN  IF r.err # Nil
        THEN [d |-> [dd EXCEPT !.w = r.w], err |-> r.err]
        ELSE [d |-> [dd EXCEPT !.w = r.w, !.codeIndex = Dec(@)], err |-> Nil]

\* A faulty length byte: the Delimiter between two groups is not written.
DecoderCodeNoDelimiter(dd, c) ==
    [d |-> [dd EXCEPT !.code = c, !.codeIndex = Dec(c)], err |-> Nil]

\* A faulty length byte: the Delimiter is written before every group, the
\* first of a frame and the one after a full group included.
DecoderCodeAlwaysDelimiter(dd, c) ==
    [d |-> [dd EXCEPT !.w = SinkWrite(dd.w, <<Delimiter>>).w,
                      !.code = c,
                      !.codeIndex = Dec(c)],
     err |-> Nil]

\* WriteByte on the length byte of a new group.
DecoderCode(dd, c) ==
    LET d1 == [dd EXCEPT !.codeIndex = c]
        r  == IF d1.code # FullCode
              THEN SinkWrite(d1.w, <<Delimiter>>)
              ELSE [w |-> d1.w, n |-> 0, err |-> Nil]
    IN  IF r.err # Nil
        THEN [d |-> [d1 EXCEPT !.w = r.w], err |-> r.err]
        ELSE [d |-> [d1 EXCEPT !.w = r.w,
                               !.code = d1.codeIndex,
                               !.codeIndex = Dec(d1.codeIndex)],
              err |-> Nil]

\* WriteByte once c has been XORed with the sentinel.
DecoderStep(dd, c) ==
    IF c = Delimiter THEN DecoderSentinel(DecoderFlushReduced(dd))
    ELSE IF dd.codeIndex > 0 THEN DecoderData(dd, c)
    ELSE DecoderCode(dd, c)

\* A faulty WriteByte: c ^= d.sentinel is missing.
DecoderWriteByteRaw(dd, b) == DecoderStep(dd, b)

DecoderWriteByte(dd, b) == DecoderStep(dd, BitXor(b, dd.sentinel))

\* One round of the loop of Write: WriteByte on p[i] has returned s.
Counted(s, i) ==
    [d |-> s.d, n |-> IF s.err = Nil THEN i + 1 ELSE i, err |-> s.err]

RECURSIVE DecoderWriteLoop(_, _, _, _)
\* The rounds lo .. hi-1 (0-based) of the loop of Decoder.Write; r holds the
\* Decoder, the index reached and the error that ends the loop.  The rounds
\* are taken in order, the range being split in halves.
DecoderWriteLoop(r, p, lo, hi) ==
    IF r.err # Nil \/ lo >= hi THEN r
    ELSE IF hi = lo + 1 THEN Counted(DecoderWriteByte(r.d, p[lo + 1]), lo)
    ELSE DecoderWriteLoop(DecoderWriteLoop(r, p, lo, (lo + hi) \div 2),
                          p, (lo + hi) \div 2, hi)

\* A faulty Write: every call starts at a group boundary, whatever the
\* previous call has left owing.
DecoderWriteAligned(dd, p) ==
    DecoderWriteLoop([d |-> [dd EXCEPT !.codeIndex = 0], n |-> 0, err |-> Nil],
                     p, 0, Len(p))

\* A faulty Write: after EOD the bytes behind the sentinel are processed in
\* the same call, which still returns the index of the sentinel and EOD.
DecoderWriteResume(dd, p) ==
    LET r == DecoderWriteLoop([d |-> dd, n |-> 0, err |-> Nil], p, 0, Len(p))
    IN  IF r.err = EOD /\ r.n + 1 < Len(p)
        THEN [r EXCEPT !.d = DecoderWriteLoop([d |-> r.d, n |-> 0, err |-> Nil],
                                              p, r.n + 1, Len(p)).d]
        ELSE r

DecoderWrite(dd, p) ==
    DecoderWriteLoop([d |-> dd, n |-> 0, err |-> Nil], p, 0, Len(p))

NeedsMoreData(dd) == dd.codeIndex # 0

\* A faulty Close: NeedsMoreData is not looked at.
DecoderCloseCheckLenient(f) ==
    IF f.err # Nil THEN f ELSE [d |-> f.d, err |-> Nil]

\* Close, after flushReduced has returned f.
DecoderCloseCheck(f) ==
    IF f.err # Nil THEN f
    ELSE IF NeedsMoreData(f.d) THEN [d |-> f.d, err |-> ErrIncompleteFrame]
    ELSE [d |-> f.d, err |-> Nil]

\* A faulty Close: in reduced mode the last length byte is written as a data
\* byte whether or not data bytes are owed.
DecoderCloseFlushAll(dd) ==
    IF dd.reduced
    THEN [d |-> [dd EXCEPT !.w = SinkWrite(dd.w, <<dd.code>>).w, !.codeIndex = 0],
          err |-> Nil]
    ELSE DecoderCloseCheck([d |-> dd, err |-> Nil])

DecoderClose(dd) == DecoderCloseCheck(DecoderFlushReduced(dd))

\* A Decoder's Write seen through io.Writer.
AsWriter(r) == [w |-> r.d, n |-> r.n, err |-> r.err]

\* w.Write(p) on the io.Writer an Encoder is given: a Decoder (the structs
\* implement io.Writer "to allow chaining") decodes p, a buffer or a pipe
\* takes it.
Write(w, p) ==
    IF w.kind = "Decoder" THEN AsWriter(DecoderWrite(w, p)) ELSE SinkWrite(w, p)

\* return buf.Bytes(), err
Returned(w, err) == [bytes |-> Bytes(w), err |-> err]

\* A different Decode: EOD from d.Write counts as success and Close decides.
DecodeCloseGraceful(r) ==
    IF r.err # Nil /\ r.err # EOD THEN Returned(r.d.w, r.err)
    ELSE Returned(DecoderClose(r.d).d.w, DecoderClose(r.d).err)

\* Decode, after d.Write has returned r.
DecodeClose(r) ==
    IF r.err # Nil THEN Returned(r.d.w, r.err)
    ELSE LET c == DecoderClose(r.d) IN Returned(c.d.w, c.err)

\* The one-shot Decode.
Decode(p, os) == DecodeClose(DecoderWrite(NewDecoder(NewBuffer, os), p))

----------------------------------------------------------------------------
(* Encoder *)

\* A faulty NewEncoder: e.buf[0] = 1 is missing.
NewEncoderZero(w, os) ==
    [kind |-> "Encoder",
     sentinel |-> ApplyOptions(os, DefaultConfig).sentinel,
     delimiterOnClose |-> ApplyOptions(os, DefaultConfig).delimiterOnClose,
     reduced |-> ApplyOptions(os, DefaultConfig).reduced,
     w |-> w,
     buf |-> <<0>>]

NewEncoder(w, os) ==
    LET c == ApplyOptions(os, DefaultConfig)
    IN  [kind |-> "Encoder",
         sentinel |-> c.sentinel,
         delimiterOnClose |-> c.delimiterOnClose,
         reduced |-> c.reduced,
         w |-> w,
         buf |-> <<1>>]

\* A faulty finish: the overhead byte is also replaced by a last data byte
\* equal to it.
ReduceLoose(ee, close) ==
    IF close /\ ee.reduced /\ Len(ee.buf) > 1 /\ ee.buf[1] <= ee.buf[Len(ee.buf)]
    THEN <<ee.buf[Len(ee.buf)]>> \o SubSeq(ee.buf, 2, Len(ee.buf) - 1)
    ELSE ee.buf

\* finish: the COBS/R replacement of the overhead byte by the last data byte.
Reduce(ee, close) ==
    IF close /\ ee.reduced /\ Len(ee.buf) > 1 /\ ee.buf[1] < ee.buf[Len(ee.buf)]
    THEN <<ee.buf[Len(ee.buf)]>> \o SubSeq(ee.buf, 2, Len(ee.buf) - 1)
    ELSE ee.buf

\* A faulty finish: the length byte is left out of the XOR.
MaskedData(buf, s) ==
    [i \in 1 .. Len(buf) |-> IF i = 1 THEN buf[i] ELSE BitXor(buf[i], s)]

\* finish: for i := range e.buf { e.buf[i] ^= e.sentinel }
Masked(buf, s) ==
    IF s # Delimiter THEN [i \in 1 .. Len(buf) |-> BitXor(buf[i], s)] ELSE buf

\* A faulty reset: e.buf[0] = 1 is missing after a group has been written.
FinishResetZero(ee, b, r) ==
    IF r.err # Nil
    THEN [e |-> [ee EXCEPT !.buf = b, !.w = r.w], err |-> r.err]
    ELSE [e |-> [ee EXCEPT !.buf = <<0>>, !.w = r.w], err |-> Nil]

\* A faulty finish: the length byte is reset but the data bytes stay in the
\* buffer (e.buf = e.buf[:1] is missing).
FinishResetKeep(ee, b, r) ==
    IF r.err # Nil
    THEN [e |-> [ee EXCEPT !.buf = b, !.w = r.w], err |-> r.err]
    ELSE [e |-> [ee EXCEPT !.buf = [b EXCEPT ![1] = 1], !.w = r.w], err |-> Nil]

\* finish: the end, r being what the last write to e.w returned; the buffer
\* is reset only if that write succeeded.
FinishReset(ee, b, r) ==
    IF r.err # Nil
    THEN [e |-> [ee EXCEPT !.buf = b, !.w = r.w], err |-> r.err]
    ELSE [e |-> [ee EXCEPT !.buf = <<1>>, !.w = r.w], err |-> Nil]

\* A faulty finish: COBS/R frames are always closed with a delimiter.
FinishDelimiterReduced(ee, close, b, r) ==
    IF r.err = Nil /\ close /\ (ee.delimiterOnClose \/ ee.reduced)
    THEN FinishReset(ee, b, Write(r.w, <<ee.sentinel>>))
    ELSE FinishReset(ee, b, r)

\* A faulty finish: the delimiter on close is written whether or not the
\* write of the group succeeded.
FinishDelimiterAnyway(ee, close, b, r) ==
    IF close /\ ee.delimiterOnClose
    THEN FinishReset(ee, b, Write(r.w, <<ee.sentinel>>))
    ELSE FinishReset(ee, b, r)

\* A faulty finish: with delimiter on close, the delimiter is written after
\* every group, not only on close.
FinishDelimiterEvery(ee, close, b, r) ==
    IF r.err = Nil /\ ee.delimiterOnClose
    THEN FinishReset(ee, b, Write(r.w, <<ee.sentinel>>))
    ELSE FinishReset(ee, b, r)

\* finish: the delimiter on close, r being what e.w.Write(e.buf) returned.
FinishDelimiter(ee, close, b, r) ==
    IF r.err = Nil /\ close /\ ee.delimiterOnClose
    THEN FinishReset(ee, b, Write(r.w, <<ee.sentinel>>))
    ELSE FinishReset(ee, b, r)

\* finish: the write of the group b.
FinishWrite(ee, close, b) == FinishDelimiter(ee, close, b, Write(ee.w, b))

EncoderFinish(ee, close) ==
    FinishWrite(ee, close, Masked(Reduce(ee, close), ee.sentinel))

\* A faulty WriteByte: the group counts as full one byte early.
EncoderFullEarly(ee) ==
    IF ee.buf[1] >= FullCode - 1 THEN EncoderFinish(ee, FALSE)
    ELSE [e |-> ee, err |-> Nil]

\* WriteByte: "Finish if group is full".
EncoderFull(ee) ==
    IF ee.buf[1] = FullCode THEN EncoderFinish(ee, FALSE)
    ELSE [e |-> ee, err |-> Nil]

\* A faulty WriteByte: e.buf[0]++ is missing.
EncoderAppendNoCount(f, c) ==
    IF f.err # Nil THEN f
    ELSE IF c = Delimiter THEN EncoderFinish(f.e, FALSE)
    ELSE [e |-> [f.e EXCEPT !.buf = Append(@, c)], err |-> Nil]

\* A faulty WriteByte: a group is finished as soon as it has become full.
EncoderAppendEager(f, c) ==
    IF f.err # Nil THEN f
    ELSE IF c = Delimiter THEN EncoderFinish(f.e, FALSE)
    ELSE IF f.e.buf[1] = FullCode - 1
         THEN EncoderFinish([f.e EXCEPT !.buf = [Append(@, c) EXCEPT ![1] = Inc(@)]],
                            FALSE)
    ELSE [e |-> [f.e EXCEPT !.buf = [Append(@, c) EXCEPT ![1] = Inc(@)]],
          err |-> Nil]

\* A faulty WriteByte: "if c == Delimiter" is missing, a zero byte is stored.
EncoderAppendAll(f, c) ==
    IF f.err # Nil THEN f
    ELSE [e |-> [f.e EXCEPT !.buf = [Append(@, c) EXCEPT ![1] = Inc(@)]],
          err |-> Nil]

\* WriteByte: after the full group, if any, has been finished with result f.
EncoderAppend(f, c) ==
    IF f.err # Nil THEN f
    ELSE IF c = Delimiter THEN EncoderFinish(f.e, FALSE)
    ELSE [e |-> [f.e EXCEPT !.buf = [Append(@, c) EXCEPT ![1] = Inc(@)]],
          err |-> Nil]

\* A faulty WriteByte: the group is written as soon as a byte has been stored.
EncoderWriteByteThrough(ee, c) ==
    IF EncoderAppend(EncoderFull(ee), c).err # Nil \/ c = Delimiter
    THEN EncoderAppend(EncoderFull(ee), c)
    ELSE EncoderFinish(EncoderAppend(EncoderFull(ee), c).e, FALSE)

EncoderWriteByte(ee, c) == EncoderAppend(EncoderFull(ee), c)

\* A faulty Write: the byte whose WriteByte failed is counted as written.
CountedEAlways(s, i) == [e |-> s.e, n |-> i + 1, err |-> s.err]

\* One round of the loop of Write: WriteByte on p[i] has returned s.
CountedE(s, i) ==
    [e |-> s.e, n |-> IF s.err = Nil THEN i + 1 ELSE i, err |-> s.err]

RECURSIVE EncoderWriteLoop(_, _, _, _)
\* The rounds lo .. hi-1 (0-based) of the loop of Encoder.Write; r holds the
\* Encoder, the index reached and the error that ends the loop.  The rounds
\* are taken in order, the range being split in halves.
EncoderWriteLoop(r, p, lo, hi) ==
    IF r.err # Nil \/ lo >= hi THEN r
    ELSE IF hi = lo + 1 THEN CountedE(EncoderWriteByte(r.e, p[lo + 1]), lo)
    ELSE EncoderWriteLoop(EncoderWriteLoop(r, p, lo, (lo + hi) \div 2),
                          p, (lo + hi) \div 2, hi)

\* A faulty Write: every call with data ends by flushing the pending group.
EncoderWriteFlush(ee, p) ==
    IF p = <<>> THEN [e |-> ee, n |-> 0, err |-> Nil]
    ELSE [e |-> EncoderFinish(
                   EncoderWriteLoop([e |-> ee, n |-> 0, err |-> Nil], p, 0, Len(p)).e,
                   FALSE).e,
          n |-> Len(p), err |-> Nil]

EncoderWrite(ee, p) ==
    EncoderWriteLoop([e |-> ee, n |-> 0, err |-> Nil], p, 0, Len(p))

EncoderClose(ee) == EncoderFinish(ee, TRUE)

\* Encode, after e.Write has returned r.
EncodeClose(r) ==
    IF r.err # Nil THEN Returned(r.e.w, r.err)
    ELSE LET c == EncoderClose(r.e) IN Returned(c.e.w, c.err)

\* The one-shot Encode.
Encode(p, os) == EncodeClose(EncoderWrite(NewEncoder(NewBuffer, os), p))

-----------------------------------------------------------------------------
(* The Encoder and the Decoder of the delimiter API *)

\* A faulty maxCode: 0xff whatever the delimiter.
maxCodePlain(delimiter) == 255

\* maxCode: the length byte of a full group.
maxCode(delimiter) == IF delimiter = 255 THEN 254 ELSE 255

\* checkLen: the length byte steps over the delimiter.
checkLen(buf, delimiter) ==
    IF buf[1] = delimiter THEN [buf EXCEPT ![1] = Inc(@)] ELSE buf

\* NewEncoderWithDelimiter: e.buf[0] = 0, then checkLen.
NewEncoderWithDelimiter(w, delimiter) ==
    [kind |-> "DelimiterEncoder",
     w |-> w,
     delimiter |-> delimiter,
     buf |-> checkLen(<<0>>, delimiter)]

\* finish, r being what e.w.Write(e.buf) returned: the buffer is reset only
\* if the write succeeded.
DelimiterEncoderReset(ee, r) ==
    IF r.err # Nil
    THEN [e |-> [ee EXCEPT !.w = r.w], err |-> r.err]
    ELSE [e |-> [ee EXCEPT !.w = r.w, !.buf = checkLen(<<0>>, ee.delimiter)],
          err |-> Nil]

DelimiterEncoderFinish(ee) == DelimiterEncoderReset(ee, SinkWrite(ee.w, ee.buf))

\* A faulty WriteByte: "Finish if group is full" is missing.
DelimiterEncoderFullNever(ee) == [e |-> ee, err |-> Nil]

\* WriteByte: "Finish if group is full".
DelimiterEncoderFull(ee) ==
    IF ee.buf[1] = maxCode(ee.delimiter) THEN DelimiterEncoderFinish(ee)
    ELSE [e |-> ee, err |-> Nil]

\* WriteByte: after the full group, if any, has been finished with result f.
DelimiterEncoderAppend(f, c) ==
    IF f.err # Nil THEN f
    ELSE IF c = f.e.delimiter THEN DelimiterEncoderFinish(f.e)
    ELSE [e |-> [f.e EXCEPT
                   !.buf = checkLen([Append(@, c) EXCEPT ![1] = Inc(@)],
                                    f.e.delimiter)],
          err |-> Nil]

DelimiterEncoderWriteByte(ee, c) ==
    DelimiterEncoderAppend(DelimiterEncoderFull(ee), c)

RECURSIVE DelimiterEncoderWriteLoop(_, _, _, _)
\* The rounds lo .. hi-1 (0-based) of the loop of Write, split in halves.
DelimiterEncoderWriteLoop(r, p, lo, hi) ==
    IF r.err # Nil \/ lo >= hi THEN r
    ELSE IF hi = lo + 1
         THEN CountedE(DelimiterEncoderWriteByte(r.e, p[lo + 1]), lo)
    ELSE DelimiterEncoderWriteLoop(
            DelimiterEncoderWriteLoop(r, p, lo, (lo + hi) \div 2),
            p, (lo + hi) \div 2, hi)

DelimiterEncoderWrite(ee, p) ==
    DelimiterEncoderWriteLoop([e |-> ee, n |-> 0, err |-> Nil], p, 0, Len(p))

DelimiterEncoderClose(ee) == DelimiterEncoderFinish(ee)

\* EncodeWithDelimiter, after e.Write has returned r.
EncodeWithDelimiterClose(r) ==
    IF r.err # Nil THEN Returned(r.e.w, r.err)
    ELSE Returned(DelimiterEncoderClose(r.e).e.w, DelimiterEncoderClose(r.e).err)

EncodeWithDelimiter(data_, delimiter) ==
    EncodeWithDelimiterClose(
        DelimiterEncoderWrite(NewEncoderWithDelimiter(NewBuffer, delimiter), data_))

NewDecoderWithDelimiter(w, delimiter) ==
    [kind |-> "DelimiterDecoder",
     w |-> w,
     delimiter |-> delimiter,
     code |-> maxCode(delimiter),
     codeIndex |-> 0]

\* WriteByte on a delimiter.
DelimiterDecoderEnd(dd) ==
    IF dd.codeIndex # 0 THEN [d |-> dd, err |-> ErrUnexpectedEOD]
    ELSE [d |-> [dd EXCEPT !.code = maxCode(dd.delimiter)], err |-> EOD]

\* WriteByte on a data byte, r being what d.w.Write([]byte{c}) returned.
DelimiterDecoderData(dd, r) ==
    IF r.err # Nil THEN [d |-> [dd EXCEPT !.w = r.w], err |-> r.err]
    ELSE [d |-> [dd EXCEPT !.w = r.w, !.codeIndex = Dec(@)], err |-> Nil]

\* A faulty length byte: the count is never lowered.
DelimiterDecoderCodeNoSkip(dd, c, r) ==
    IF r.err # Nil THEN [d |-> [dd EXCEPT !.w = r.w, !.codeIndex = c], err |-> r.err]
    ELSE [d |-> [dd EXCEPT !.w = r.w, !.code = c, !.codeIndex = c], err |-> Nil]

\* WriteByte on the length byte c, r being what the write of the delimiter
\* between two groups, if any, returned: "If our encoded length is larger
\* than the delimiter, we need to subtract one."
DelimiterDecoderCode(dd, c, r) ==
    IF r.err # Nil THEN [d |-> [dd EXCEPT !.w = r.w, !.codeIndex = c], err |-> r.err]
    ELSE [d |-> [dd EXCEPT !.w = r.w,
                           !.code = c,
                           !.codeIndex = IF c > dd.delimiter THEN Dec(c) ELSE c],
          err |-> Nil]

DelimiterDecoderWriteByte(dd, c) ==
    IF c = dd.delimiter THEN DelimiterDecoderEnd(dd)
    ELSE IF dd.codeIndex > 0 THEN DelimiterDecoderData(dd, SinkWrite(dd.w, <<c>>))
    ELSE IF dd.code # maxCode(dd.delimiter)
         THEN DelimiterDecoderCode(dd, c, SinkWrite(dd.w, <<dd.delimiter>>))
    ELSE DelimiterDecoderCode(dd, c, [w |-> dd.w, n |-> 0, err |-> Nil])

RECURSIVE DelimiterDecoderWriteLoop(_, _, _, _)
\* The rounds lo .. hi-1 (0-based) of the loop of Write, split in halves.
DelimiterDecoderWriteLoop(r, p, lo, hi) ==
    IF r.err # Nil \/ lo >= hi THEN r
    ELSE IF hi = lo + 1
         THEN Counted(DelimiterDecoderWriteByte(r.d, p[lo + 1]), lo)
    ELSE DelimiterDecoderWriteLoop(
            DelimiterDecoderWriteLoop(r, p, lo, (lo + hi) \div 2),
            p, (lo + hi) \div 2, hi)

DelimiterDecoderWrite(dd, p) ==
    DelimiterDecoderWriteLoop([d |-> dd, n |-> 0, err |-> Nil], p, 0, Len(p))

DelimiterNeedsMoreData(dd) == dd.codeIndex # 0

\* DecodeWithDelimiter, after d.Write has returned r.
DecodeWithDelimiterEnd(r) ==
    IF r.err # Nil THEN Returned(r.d.w, r.err)
    ELSE IF DelimiterNeedsMoreData(r.d) THEN Returned(r.d.w, ErrIncompleteFrame)
    ELSE Returned(r.d.w, Nil)

DecodeWithDelimiter(data_, delimiter) ==
    DecodeWithDelimiterEnd(
        DelimiterDecoderWrite(NewDecoderWithDelimiter(NewBuffer, delimiter), data_))

----------------------------------------------------------------------------
(* The inputs the callers draw from *)

\* Longest payload or stream enumerated byte by byte.
MaxLen == 3

\* Most frames one Encoder and one Decoder are reused for.
MaxFrames == 2

\* Most bytes a LimitedWriter takes before it fails.
MaxLimit == 2

Sentinels == {0, 1, 3, 128, 255}

\* Payload bytes: zero, the sentinel itself, small values around the length
\* bytes of short groups, and the largest byte.
Alphabet(s) == {0, 1, 3, 255} \cup {s}

\* Bytes on the wire: the sentinel and the length bytes 1, 2, 3 and 0xff as
\* they appear under sentinel s.
WireAlphabet(s) == {BitXor(c, s) : c \in {0, 1, 2, 3, 255}}

SeqsUpTo(S, n) == UNION {[1 .. k -> S] : k \in 0 .. n}

Run(b, n) == [i \in 1 .. n |-> b]

\* Payloads around a full group: a run of 253 to 255 non-zero bytes, then
\* nothing, a zero or a large byte.
LongPayloads ==
    {Run(b, n) \o suf : b \in {1, 255},
                        n \in (FullCode - 2) .. FullCode,
                        suf \in {<<>>, <<0>>, <<255>>}}

ShortPayloads(s) == SeqsUpTo(Alphabet(s), MaxLen)

Payloads(s) == ShortPayloads(s) \cup LongPayloads

\* The payloads written in chunks: the short ones, and runs of 254 and 255
\* non-zero bytes with or without a zero after them.
ChunkedPayloads(s) ==
    ShortPayloads(s)
    \cup {Run(b, n) \o suf : b \in {1, 255}, n \in {FullCode - 1, FullCode},
                             suf \in {<<>>, <<0>>}}

\* The payloads written into a failing writer: the short ones and the runs of
\* 254 and 255 non-zero bytes (the first fills a group, the second goes past it).
FailingPayloads(s) ==
    ShortPayloads(s) \cup {Run(1, n) : n \in {FullCode - 1, FullCode}}

WireStreams(s) == SeqsUpTo(WireAlphabet(s), MaxLen)

Options(o, reduced) ==
    <<WithSentinel(o.sentinel), WithReduced(reduced),
      WithDelimiterOnClose(o.delimiterOnClose)>>

NoCall == [called |-> FALSE]
NoObject == [kind |-> "none"]

----------------------------------------------------------------------------
(* One-shot callers: Encode and Decode on whole byte slices *)

InitOneShot ==
    /\ harness \in {"encode", "decode"}
    /\ opts \in [sentinel : Sentinels, reduced : {FALSE},
                 delimiterOnClose : IF harness = "encode" THEN BOOLEAN ELSE {FALSE}]
    /\ data \in IF harness = "encode" THEN Payloads(opts.sentinel)
                ELSE WireStreams(opts.sentinel)
    /\ encoded = [r \in BOOLEAN |-> NoCall]
    /\ decoded = NoCall
    /\ e = NoObject
    /\ d = NoObject
    /\ payload = <<>>
    /\ nframes = 0
    /\ pc = "oneshot"
    /\ last = NoCall

\* enc, err := Encode(data, WithSentinel(s), WithReduced(r), ...)
CallEncode(r) ==
    /\ harness = "encode"
    /\ ~encoded[r].called
    /\ ~decoded.called
    /\ LET res == Encode(data, Options(opts, r))
       IN  encoded' = [encoded EXCEPT
                         ![r] = [called |-> TRUE, bytes |-> res.bytes, err |-> res.err]]
    /\ UNCHANGED <<harness, opts, data, decoded, e, d, payload, nframes, pc, last>>

\* dec, err := Decode(enc, WithSentinel(s), WithReduced(rd)), where enc is what
\* Encode returned under reduced flag re, followed (trailing) by one literal
\* sentinel byte.
CallDecodeEncoded(re, rd, trailing) ==
    /\ harness = "encode"
    /\ encoded[re].called
    /\ ~decoded.called
    /\ LET input == encoded[re].bytes
                    \o (IF trailing THEN <<opts.sentinel>> ELSE <<>>)
           res   == Decode(input, Options(opts, rd))
       IN  decoded' = [called |-> TRUE, src |-> "encoded", encReduced |-> re,
                       reduced |-> rd, trailing |-> trailing, input |-> input,
                       bytes |-> res.bytes, err |-> res.err]
    /\ UNCHANGED <<harness, opts, data, encoded, e, d, payload, nframes, pc, last>>

\* dec, err := Decode(data, WithSentinel(s), WithReduced(rd)) on bytes taken
\* from the wire as they are.
CallDecodeData(rd) ==
    /\ harness = "decode"
    /\ ~decoded.called
    /\ LET res == Decode(data, Options(opts, rd))
       IN  decoded' = [called |-> TRUE, src |-> "data", encReduced |-> FALSE,
                       reduced |-> rd, trailing |-> FALSE, input |-> data,
                       bytes |-> res.bytes, err |-> res.err]
    /\ UNCHANGED <<harness, opts, data, encoded, e, d, payload, nframes, pc, last>>

OneShotNext ==
    \/ \E r \in BOOLEAN : CallEncode(r)
    \/ \E re \in BOOLEAN, rd \in BOOLEAN, trailing \in BOOLEAN :
          CallDecodeEncoded(re, rd, trailing)
    \/ \E rd \in BOOLEAN : CallDecodeData(rd)

----------------------------------------------------------------------------
(* Streaming callers: an Encoder and a Decoder used through their methods *)

\* "buffer": an Encoder writing into a bytes.Buffer.
\* "chain":  an Encoder writing into a Decoder writing into a bytes.Buffer
\*           (TestWriter, FuzzChainWriter).
\* "stream": an Encoder writing into a pipe that a Decoder is fed from, one
\*           sentinel byte on the pipe after each frame (TestStream).
\* "feed":   a Decoder fed bytes taken from the wire as they are.
\* "limited": an Encoder writing into a LimitedWriter (TestEncodeError).
\* "feedlimited": a Decoder writing into a LimitedWriter, fed what Encode
\*           returned for a payload (TestDecodeError).
EncoderHarnesses == {"buffer", "chain", "stream", "limited"}

\* "feedencoded": a Decoder fed what Encode returned for a payload, with or
\*           without a sentinel byte behind it (TestDecode, FuzzEncodeDecode).
FeedHarnesses == {"feed", "feedlimited", "feedencoded"}

\* enc, err := Encode(x, WithSentinel(s), WithReduced(re)): what the call
\* returned, x being kept with it.
Encoded(x, re, o) ==
    [called |-> TRUE, of |-> x,
     bytes |-> Encode(x, Options(o, re)).bytes,
     err |-> Encode(x, Options(o, re)).err]

\* The outcomes of Encode, reduced or not, on the short payloads.
EncodedFrames(o) ==
    {[r \in BOOLEAN |-> IF r = re THEN Encoded(x, re, o) ELSE NoCall] :
        x \in ShortPayloads(o.sentinel), re \in BOOLEAN}

\* What is on the wire for the frame whose encoding is in enc: the encoding
\* (one of enc[FALSE], enc[TRUE] is there), alone or with a sentinel byte
\* behind it.
Framed(enc, s) ==
    {(IF enc[TRUE].called THEN enc[TRUE].bytes ELSE enc[FALSE].bytes) \o t :
        t \in {<<>>, <<s>>}}

\* The writers that fail after 0 .. MaxLimit bytes.
LimitedWriters == {NewLimitedWriter(n, err) : n \in 0 .. MaxLimit, err \in SinkErrors}

StreamOptions == Options(opts, opts.reduced)

InitStreaming(hs) ==
    /\ harness \in hs
    /\ opts \in [sentinel : Sentinels, reduced : BOOLEAN,
                 delimiterOnClose : IF harness \in FeedHarnesses THEN {FALSE}
                                    ELSE BOOLEAN]
    /\ encoded \in IF harness = "feedencoded" THEN EncodedFrames(opts)
                   ELSE {[r \in BOOLEAN |-> NoCall]}
    /\ data \in CASE harness = "feed" -> WireStreams(opts.sentinel)
                  [] harness = "feedencoded" -> Framed(encoded, opts.sentinel)
                  [] harness = "feedlimited" ->
                        {Encode(x, StreamOptions).bytes :
                            x \in ShortPayloads(opts.sentinel)}
                  [] harness = "limited" -> FailingPayloads(opts.sentinel)
                  [] OTHER -> ChunkedPayloads(opts.sentinel)
    /\ decoded = NoCall
    /\ e \in CASE harness = "buffer" -> {NewEncoder(NewBuffer, StreamOptions)}
               [] harness = "chain" ->
                     {NewEncoder(NewDecoder(NewBuffer, StreamOptions), StreamOptions)}
               [] harness = "stream" -> {NewEncoder(NewPipe, StreamOptions)}
               [] harness = "limited" ->
                     {NewEncoder(w, StreamOptions) : w \in LimitedWriters}
               [] OTHER -> {NoObject}
    /\ d \in CASE harness \in {"stream", "feed", "feedencoded"} ->
                     {NewDecoder(NewBuffer, StreamOptions)}
               [] harness = "feedlimited" ->
                     {NewDecoder(w, StreamOptions) : w \in LimitedWriters}
               [] OTHER -> {NoObject}
    /\ payload = <<>>
    /\ nframes = 0
    /\ pc = "open"
    /\ last = NoCall

\* The places where the caller may split data into chunks: anywhere in a
\* short slice; in a long one, next to its ends and around the end of a full
\* group.
Cuts(x) ==
    IF Len(x) <= MaxLen + 1 THEN 0 .. Len(x)
    ELSE {0, 1, Len(x) - 1, Len(x)}
         \cup {k \in (FullCode - 2) .. FullCode : k <= Len(x)}

\* A write on the pipe returns once the reader has taken it.
PipeDrained == harness = "stream" => e.w.writes = <<>>

Called(op, arg, n, err, pre) ==
    [called |-> TRUE, op |-> op, arg |-> arg, n |-> n, err |-> err, pre |-> pre]

\* err := e.WriteByte(c) on the next byte of data.
EncWriteByteCall ==
    /\ harness \in EncoderHarnesses
    /\ pc = "open"
    /\ PipeDrained
    /\ Len(payload) < Len(data)
    /\ Len(payload) + 1 \in Cuts(data)
    /\ LET c == data[Len(payload) + 1]
           r == EncoderWriteByte(e, c)
       IN  /\ e' = r.e
           /\ payload' = IF r.err = Nil THEN Append(payload, c) ELSE payload
           /\ pc' = IF r.err = Nil THEN "open" ELSE "failed"
           /\ last' = Called("Encoder.WriteByte", <<c>>,
                             IF r.err = Nil THEN 1 ELSE 0, r.err, e)
    /\ UNCHANGED <<harness, opts, data, encoded, decoded, d, nframes>>

\* n, err := e.Write(p) on the next k bytes of data.
EncWriteCall(k) ==
    /\ harness \in EncoderHarnesses
    /\ pc = "open"
    /\ PipeDrained
    /\ k >= 0
    /\ LET p == SubSeq(data, Len(payload) + 1, Len(payload) + k)
           r == EncoderWrite(e, p)
       IN  /\ e' = r.e
           /\ payload' = payload \o SubSeq(p, 1, r.n)
           /\ pc' = IF r.err = Nil THEN "open" ELSE "failed"
           /\ last' = Called("Encoder.Write", p, r.n, r.err, e)
    /\ UNCHANGED <<harness, opts, data, encoded, decoded, d, nframes>>

\* err := e.Close() once the whole of data has been written.
EncCloseCall ==
    /\ harness \in EncoderHarnesses
    /\ pc = "open"
    /\ PipeDrained
    /\ payload = data
    /\ LET r == EncoderClose(e)
       IN  /\ e' = r.e
           /\ pc' = IF r.err = Nil THEN "closed" ELSE "failed"
           /\ last' = Called("Encoder.Close", <<>>, 0, r.err, e)
    /\ UNCHANGED <<harness, opts, data, encoded, decoded, d, payload, nframes>>

\* pw.Write([]byte{sentinel}) after the frame, where Close has not put it.
PutDelimiter ==
    /\ harness = "stream"
    /\ pc = "closed"
    /\ ~opts.delimiterOnClose
    /\ PipeDrained
    /\ e' = [e EXCEPT !.w = Write(e.w, <<opts.sentinel>>).w]
    /\ pc' = "delimited"
    /\ UNCHANGED <<harness, opts, data, encoded, decoded, d, payload, nframes, last>>

\* What one Read on the pipe may return: the whole of the oldest write, or a
\* single byte of a short one.
ReadSizes ==
    IF harness # "stream" \/ e.w.writes = <<>> THEN {}
    ELSE {Len(Head(e.w.writes))}
         \cup (IF Len(Head(e.w.writes)) <= MaxLen + 1 THEN {1} ELSE {})

\* The terminating sentinel of the current frame is on the stream.
FrameEnded == pc = "delimited" \/ (pc = "closed" /\ opts.delimiterOnClose)

\* One round of io.Copy(d, pr): read the first k bytes of the oldest write on
\* the pipe and hand them to d.Write.
DecRead(k) ==
    /\ harness = "stream"
    /\ pc \in {"open", "closed", "delimited"}
    /\ e.w.writes # <<>>
    /\ LET chunk == Head(e.w.writes)
           p     == SubSeq(chunk, 1, k)
           rest  == SubSeq(chunk, k + 1, Len(chunk))
           r     == DecoderWrite(d, p)
       IN  /\ d' = r.d
           /\ e' = [e EXCEPT !.w.writes = IF rest = <<>> THEN Tail(@)
                                          ELSE <<rest>> \o Tail(@)]
           /\ pc' = CASE r.err = Nil -> pc
                      [] r.err = EOD /\ FrameEnded -> "eod"
                      [] OTHER -> "failed"
           /\ last' = Called("Decoder.Write", p, r.n, r.err, d)
    /\ UNCHANGED <<harness, opts, data, encoded, decoded, payload, nframes>>

\* buf.Reset() on the buffer the decoded bytes arrive in.
ResetBuffer(h, ee, dd) ==
    CASE h = "buffer" -> <<[ee EXCEPT !.w.writes = <<>>], dd>>
      [] h = "stream" -> <<ee, [dd EXCEPT !.w.writes = <<>>]>>

\* The frame is complete: the caller empties the buffer and keeps the same
\* Encoder and Decoder for the next frame.
EndFrame ==
    /\ harness \in {"buffer", "stream"}
    /\ pc = IF harness = "stream" THEN "eod" ELSE "closed"
    /\ nframes + 1 < MaxFrames
    /\ LET r == ResetBuffer(harness, e, d)
       IN  e' = r[1] /\ d' = r[2]
    /\ data' = <<>>
    /\ payload' = <<>>
    /\ nframes' = nframes + 1
    /\ pc' = "idle"
    /\ last' = NoCall
    /\ UNCHANGED <<harness, opts, encoded, decoded>>

\* The caller takes x as the payload of the next frame.
NextFrame(x) ==
    /\ harness \in {"buffer", "stream"}
    /\ pc = "idle"
    /\ data' = x
    /\ pc' = "open"
    /\ UNCHANGED <<harness, opts, encoded, decoded, e, d, payload, nframes, last>>

\* err := d.WriteByte(b) on the next byte of data.
DecWriteByteCall ==
    /\ harness \in FeedHarnesses
    /\ pc = "open"
    /\ Len(payload) < Len(data)
    /\ LET b == data[Len(payload) + 1]
           r == DecoderWriteByte(d, b)
       IN  /\ d' = r.d
           /\ payload' = Append(payload, b)
           /\ last' = Called("Decoder.WriteByte", <<b>>,
                             IF r.err = Nil THEN 1 ELSE 0, r.err, d)
    /\ UNCHANGED <<harness, opts, data, encoded, decoded, e, nframes, pc>>

\* n, err := d.Write(p) on the next k bytes of data; after an error or EOD the
\* caller goes on behind the byte that raised it.
DecWriteCall(k) ==
    /\ harness \in FeedHarnesses
    /\ pc = "open"
    /\ Len(payload) + k <= Len(data)
    /\ LET p == SubSeq(data, Len(payload) + 1, Len(payload) + k)
           r == DecoderWrite(d, p)
       IN  /\ d' = r.d
           /\ payload' = payload \o SubSeq(p, 1, IF r.err = Nil THEN r.n ELSE r.n + 1)
           /\ last' = Called("Decoder.Write", p, r.n, r.err, d)
    /\ UNCHANGED <<harness, opts, data, encoded, decoded, e, nframes, pc>>

\* err := d.Close() at the end of data.
DecCloseCall ==
    /\ harness \in FeedHarnesses
    /\ pc = "open"
    /\ payload = data
    /\ LET r == DecoderClose(d)
       IN  /\ d' = r.d
           /\ last' = Called("Decoder.Close", <<>>, 0, r.err, d)
    /\ pc' = "closed"
    /\ UNCHANGED <<harness, opts, data, encoded, decoded, e, payload, nframes>>

FrameNext ==
    \/ EncWriteByteCall
    \/ \E c \in Cuts(data) : EncWriteCall(c - Len(payload))
    \/ EncCloseCall

EncoderNext ==
    \/ FrameNext
    \/ EndFrame
    \/ \E x \in ShortPayloads(opts.sentinel) : NextFrame(x)

PipeNext ==
    \/ PutDelimiter
    \/ \E k \in ReadSizes : DecRead(k)

FeedNext ==
    \/ DecWriteByteCall
    \/ \E k \in 0 .. Len(data) : DecWriteCall(k)
    \/ DecCloseCall

----------------------------------------------------------------------------
(* Callers of the delimiter API *)

\* The bytes of the payloads given to the delimiter API: the delimiter and
\* its two neighbours.
DelimiterAlphabet(delimiter) == {delimiter, Inc(delimiter), Dec(delimiter)}

\* The payloads given to the delimiter API: the short ones, and a run of 255
\* bytes other than the delimiter, alone or with the delimiter behind its
\* 254th byte.
DelimiterPayloads(delimiter) ==
    SeqsUpTo(DelimiterAlphabet(delimiter), MaxLen)
    \cup {Run(Inc(delimiter), FullCode),
          Run(Inc(delimiter), FullCode - 1) \o <<delimiter>>}

\* e := NewEncoderWithDelimiter(buf, delimiter), for every delimiter.
InitDelimiter ==
    /\ harness = "delimiter"
    /\ opts \in [sentinel : Byte, reduced : {FALSE}, delimiterOnClose : {FALSE}]
    /\ data \in DelimiterPayloads(opts.sentinel)
    /\ encoded = [r \in BOOLEAN |-> NoCall]
    /\ decoded = NoCall
    /\ e = NewEncoderWithDelimiter(NewBuffer, opts.sentinel)
    /\ d = NoObject
    /\ payload = <<>>
    /\ nframes = 0
    /\ pc = "open"
    /\ last = NoCall

\* err := e.WriteByte(c) on the next byte of data.
DelimiterWriteByteCall ==
    /\ harness = "delimiter"
    /\ pc = "open"
    /\ Len(payload) < Len(data)
    /\ e' = DelimiterEncoderWriteByte(e, data[Len(payload) + 1]).e
    /\ payload' = Append(payload, data[Len(payload) + 1])
    /\ last' = Called("Encoder.WriteByte", <<data[Len(payload) + 1]>>, 1,
                      DelimiterEncoderWriteByte(e, data[Len(payload) + 1]).err, e)
    /\ UNCHANGED <<harness, opts, data, encoded, decoded, d, nframes, pc>>

\* err := e.Close() once the whole of data has been written.
DelimiterCloseCall ==
    /\ harness = "delimiter"
    /\ pc = "open"
    /\ payload = data
    /\ e' = DelimiterEncoderClose(e).e
    /\ pc' = "closed"
    /\ last' = Called("Encoder.Close", <<>>, 0, DelimiterEncoderClose(e).err, e)
    /\ UNCHANGED <<harness, opts, data, encoded, decoded, d, payload, nframes>>

\* enc, err := EncodeWithDelimiter(data, delimiter)
CallEncodeWithDelimiter ==
    /\ harness = "delimiter"
    /\ pc = "closed"
    /\ encoded' = [encoded EXCEPT
                     ![FALSE] = [called |-> TRUE,
                                 bytes |-> EncodeWithDelimiter(data, opts.sentinel).bytes,
                                 err |-> EncodeWithDelimiter(data, opts.sentinel).err]]
    /\ pc' = "encoded"
    /\ UNCHANGED <<harness, opts, data, decoded, e, d, payload, nframes, last>>

\* dec, err := DecodeWithDelimiter(enc, delimiter)
CallDecodeWithDelimiter ==
    /\ harness = "delimiter"
    /\ pc = "encoded"
    /\ decoded' = [called |-> TRUE, src |-> "encoded", encReduced |-> FALSE,
                   reduced |-> FALSE, trailing |-> FALSE,
                   input |-> encoded[FALSE].bytes,
                   bytes |-> DecodeWithDelimiter(encoded[FALSE].bytes,
                                                 opts.sentinel).bytes,
                   err |-> DecodeWithDelimiter(encoded[FALSE].bytes,
                                               opts.sentinel).err]
    /\ pc' = "decoded"
    /\ UNCHANGED <<harness, opts, data, encoded, e, d, payload, nframes, last>>

DelimiterNext ==
    \/ DelimiterWriteByteCall
    \/ DelimiterCloseCall
    \/ CallEncodeWithDelimiter
    \/ CallDecodeWithDelimiter

----------------------------------------------------------------------------
(* Specifications *)

\* Encode and Decode called on whole byte slices.
SpecOneShot == InitOneShot /\ [][OneShotNext]_vars

\* An Encoder driven chunk by chunk into a buffer.
SpecBuffer == InitStreaming({"buffer"}) /\ [][EncoderNext]_vars

\* An Encoder chained into a Decoder, both made for one frame.
SpecChain == InitStreaming({"chain"}) /\ [][FrameNext]_vars

\* An Encoder and a Decoder at the two ends of a pipe.
SpecStream == InitStreaming({"stream"}) /\ [][EncoderNext \/ PipeNext]_vars

\* An Encoder whose writer fails.
SpecEncoderError == InitStreaming({"limited"}) /\ [][FrameNext]_vars

\* A Decoder fed the encoding of a payload.
SpecEncoded == InitStreaming({"feedencoded"}) /\ [][FeedNext]_vars

\* A Decoder whose writer fails.
SpecDecoderError == InitStreaming({"feedlimited"}) /\ [][FeedNext]_vars

\* An Encoder or a Decoder whose writer fails.
SpecSinkError ==
    InitStreaming({"limited", "feedlimited"}) /\ [][FrameNext \/ FeedNext]_vars

\* The delimiter API: an Encoder used byte by byte, then the one-shot calls.
SpecDelimiter == InitDelimiter /\ [][DelimiterNext]_vars

\* The delimiter API with its Encoder driven byte by byte, and the Decoder of
\* the options API fed from the wire.
SpecCounters ==
    /\ InitDelimiter \/ InitStreaming({"feed"})
    /\ [][DelimiterNext \/ FeedNext]_vars

\* A Decoder fed from the wire, through its methods or through Decode.
SpecDecoder ==
    /\ InitStreaming({"feed"}) \/ (InitOneShot /\ harness = "decode")
    /\ [][FeedNext \/ \E rd \in BOOLEAN : CallDecodeData(rd)]_vars

----------------------------------------------------------------------------
(* Properties *)

\* p holds a byte equal to s.
HasSentinel(p, s) == \E i \in 1 .. Len(p) : p[i] = s

\* The index of the first byte of p equal to s.
FirstSentinel(p, s) ==
    CHOOSE i \in 1 .. Len(p) : p[i] = s /\ \A j \in 1 .. (i - 1) : p[j] # s

RECURSIVE OwedFrom(_, _, _)
\* The wire format read group by group, without a Decoder: p[i] is a length
\* byte, the group it opens is p[i .. i + c - 1]; the result is the number of
\* bytes of the last group that p does not hold.
OwedFrom(p, i, s) ==
    IF i > Len(p) THEN 0
    ELSE IF i + BitXor(p[i], s) - 1 > Len(p)
         THEN i + BitXor(p[i], s) - 1 - Len(p)
         ELSE OwedFrom(p, i + BitXor(p[i], s), s)

\* The data bytes the last length byte of the sentinel-free slice p still owes.
Owed(p, s) == OwedFrom(p, 1, s)

\* The last Decode call took what Encode returned under reduced flag re, was
\* made with reduced flag rd and, if trailing, had one sentinel byte added.
DecodedFrom(re, rd, trailing) ==
    /\ decoded.called
    /\ decoded.src = "encoded"
    /\ decoded.encReduced = re
    /\ decoded.reduced = rd
    /\ decoded.trailing = trailing

\* The last call was op.
LastCall(op) == last.called /\ last.op = op

\* C1: for every payload and every sentinel, Decode of what Encode returned
\* (same sentinel, not reduced, no delimiter on close) returns the payload
\* and a nil error.
RoundTrip ==
    (DecodedFrom(FALSE, FALSE, FALSE) /\ ~opts.delimiterOnClose)
        => /\ encoded[FALSE].err = Nil
           /\ decoded.err = Nil
           /\ decoded.bytes = data

\* A payload longer than a full group, with a zero in it, has made the round
\* trip under sentinel 0xff.
RoundTripReached ==
    /\ DecodedFrom(FALSE, FALSE, FALSE)
    /\ ~opts.delimiterOnClose
    /\ opts.sentinel = 255
    /\ Len(data) > FullCode
    /\ HasSentinel(data, Delimiter)
    /\ decoded.bytes = data

\* C2: for every payload and every sentinel s, no byte of what Encode returns
\* equals s, delimiter on close being off.
SentinelFree ==
    (encoded[FALSE].called /\ ~opts.delimiterOnClose)
        => ~HasSentinel(encoded[FALSE].bytes, opts.sentinel)

\* A payload that holds the non-zero sentinel and a zero has been encoded.
SentinelFreeReached ==
    /\ encoded[FALSE].called
    /\ ~opts.delimiterOnClose
    /\ opts.sentinel # Delimiter
    /\ HasSentinel(data, opts.sentinel)
    /\ HasSentinel(data, Delimiter)
    /\ Len(encoded[FALSE].bytes) > Len(data)

\* C3: an Encoder writing into a Decoder of the same sentinel (not reduced)
\* that writes into a buffer: every Write returns the length of its slice and
\* a nil error, Close returns nil, and after Close the Decoder needs no more
\* data and the buffer holds exactly the payload.
ChainedRoundTrip ==
    (harness = "chain" /\ ~opts.reduced /\ ~opts.delimiterOnClose /\ last.called)
        => /\ last.err = Nil
           /\ last.op = "Encoder.Write" => last.n = Len(last.arg)
           /\ last.op = "Encoder.Close" => /\ ~NeedsMoreData(e.w)
                                            /\ Bytes(e.w.w) = data

\* Close has returned on a chain that took a payload longer than a full group.
ChainedRoundTripReached ==
    /\ harness = "chain"
    /\ ~opts.reduced
    /\ ~opts.delimiterOnClose
    /\ opts.sentinel = 255
    /\ LastCall("Encoder.Close")
    /\ Len(data) > FullCode
    /\ Bytes(e.w.w) = data

\* C4: one Encoder and one Decoder reused over the frames of a stream, one
\* sentinel byte after each frame: Decoder.Write returns EOD exactly on the
\* slices that hold the sentinel, and at the sentinel; no call fails; at each
\* EOD the Decoder needs no more data and its sink holds exactly the payload
\* of the frame (the sink is emptied between frames).
StreamFrames ==
    harness = "stream"
        => /\ pc # "failed"
           /\ LastCall("Decoder.Write")
                 => /\ last.err \in {Nil, EOD}
                    /\ last.err = EOD <=> HasSentinel(last.arg, opts.sentinel)
                    /\ last.err = EOD => last.arg[last.n + 1] = opts.sentinel
                    /\ last.err = EOD => pc = "eod"
           /\ pc = "eod" => /\ LastCall("Decoder.Write") /\ last.err = EOD
                            /\ ~NeedsMoreData(d)
                            /\ Bytes(d.w) = data

\* The second frame of a stream has ended, after a first frame was decoded.
StreamFramesReached ==
    /\ harness = "stream"
    /\ ~opts.reduced
    /\ nframes = MaxFrames - 1
    /\ nframes > 0
    /\ pc = "eod"
    /\ Len(data) = MaxLen
    /\ HasSentinel(data, Delimiter)
    /\ Bytes(d.w) = data

\* C5: for every payload and every sentinel, Decode with WithReduced(true) of
\* what Encode with WithReduced(true) returned gives the payload and a nil
\* error.
ReducedRoundTrip ==
    (DecodedFrom(TRUE, TRUE, FALSE) /\ ~opts.delimiterOnClose)
        => /\ encoded[TRUE].err = Nil
           /\ decoded.err = Nil
           /\ decoded.bytes = data

\* A payload whose reduced encoding is shorter than its standard one has made
\* the reduced round trip.
ReducedRoundTripReached ==
    /\ DecodedFrom(TRUE, TRUE, FALSE)
    /\ ~opts.delimiterOnClose
    /\ data # <<>>
    /\ Len(encoded[TRUE].bytes) = Len(data)
    /\ opts.sentinel # Delimiter
    /\ decoded.bytes = data

\* C6: for every payload and every sentinel, the reduced encoding is no
\* longer than the standard encoding.
ReducedNoLonger ==
    (encoded[TRUE].called /\ encoded[FALSE].called)
        => Len(encoded[TRUE].bytes) <= Len(encoded[FALSE].bytes)

\* Both encodings of one payload are there and the reduced one is shorter.
ReducedNoLongerReached ==
    /\ encoded[TRUE].called
    /\ encoded[FALSE].called
    /\ Len(encoded[TRUE].bytes) < Len(encoded[FALSE].bytes)
    /\ Len(data) >= FullCode - 2

\* The Encoder after one Write of the whole of p, from a new Encoder on an
\* empty buffer.
WholeWrite(p) == EncoderWrite(NewEncoder(NewBuffer, StreamOptions), p).e

\* C7: however the payload is split into chunks, WriteByte calls included,
\* the Encoder writes to its sink what one Write of the whole payload followed
\* by Close writes; at every point the sink and the pending group are those
\* one Write of the bytes taken so far leaves.
IncrementalEncoder ==
    (harness = "buffer" /\ pc \in {"open", "closed"})
        => /\ pc = "open" => /\ Bytes(e.w) = Bytes(WholeWrite(payload).w)
                             /\ e.buf = WholeWrite(payload).buf
           /\ pc = "closed" => Bytes(e.w) = Encode(data, StreamOptions).bytes

\* The byte behind a full group has been handed over by WriteByte, bytes
\* before it in other calls.
IncrementalEncoderReached ==
    /\ harness = "buffer"
    /\ pc = "open"
    /\ LastCall("Encoder.WriteByte")
    /\ Len(payload) = FullCode
    /\ Len(last.pre.buf) = FullCode
    /\ Len(e.buf) = 2

\* C8 as stated: Decode of what Encode returned followed by one sentinel byte
\* returns the payload and a nil error.
TrailingSentinelIsSuccess ==
    (DecodedFrom(FALSE, FALSE, TRUE) /\ ~opts.delimiterOnClose)
        => decoded.bytes = data /\ decoded.err = Nil

\* C8: Decode of what Encode returned followed by one sentinel byte returns
\* the payload together with the error EOD: the signal raised at the
\* terminating sentinel is what Decode returns as its error.
TrailingSentinelIsEOD ==
    (DecodedFrom(FALSE, FALSE, TRUE) /\ ~opts.delimiterOnClose)
        => decoded.bytes = data /\ decoded.err = EOD

\* An encoding followed by its sentinel has been decoded.
TrailingSentinelReached ==
    /\ DecodedFrom(FALSE, FALSE, TRUE)
    /\ ~opts.delimiterOnClose
    /\ Len(data) = MaxLen
    /\ decoded.input[Len(decoded.input)] = opts.sentinel
    /\ decoded.bytes = data

\* C9: not reduced, input without a sentinel byte: Decode returns
\* ErrIncompleteFrame if the input ends while the last length byte still owes
\* data bytes (as for [0x02] and [0x01, 0x01, 0x05]) and nil if it owes none;
\* what is owed is what a Decoder fed the input holds in codeIndex.
IncompleteFrame ==
    /\ Decode(<<2>>, <<>>).err = ErrIncompleteFrame
    /\ Decode(<<1, 1, 5>>, <<>>).err = ErrIncompleteFrame
    /\ (decoded.called /\ decoded.src = "data" /\ ~decoded.reduced
          /\ ~HasSentinel(data, opts.sentinel))
          => decoded.err = IF Owed(data, opts.sentinel) # 0
                           THEN ErrIncompleteFrame ELSE Nil
    /\ (harness = "feed" /\ ~opts.reduced /\ ~HasSentinel(payload, opts.sentinel))
          => /\ d.codeIndex = Owed(payload, opts.sentinel)
             /\ LastCall("Decoder.Close")
                   => last.err = IF last.pre.codeIndex # 0
                                 THEN ErrIncompleteFrame ELSE Nil

\* Decode has returned ErrIncompleteFrame on an input that ends inside its
\* second group.
IncompleteFrameReached ==
    /\ decoded.called
    /\ decoded.src = "data"
    /\ ~decoded.reduced
    /\ ~HasSentinel(data, opts.sentinel)
    /\ Len(data) = MaxLen
    /\ Owed(data, opts.sentinel) = 1
    /\ decoded.bytes # <<>>
    /\ decoded.err = ErrIncompleteFrame

\* C10: not reduced: WriteByte on a sentinel byte while codeIndex # 0 returns
\* ErrUnexpectedEOD, and so does Decoder.Write on a slice that brings one;
\* Decode returns ErrUnexpectedEOD for an input whose first sentinel byte
\* comes while a group owes data bytes (as for [0x02, 0x00]).
UnexpectedEOD ==
    /\ Decode(<<2, 0>>, <<>>).err = ErrUnexpectedEOD
    /\ (harness = "feed" /\ ~opts.reduced /\ LastCall("Decoder.WriteByte")
          /\ last.arg[1] = opts.sentinel /\ last.pre.codeIndex # 0)
          => last.err = ErrUnexpectedEOD
    /\ (harness = "feed" /\ ~opts.reduced /\ LastCall("Decoder.Write")
          /\ last.n < Len(last.arg) /\ last.arg[last.n + 1] = opts.sentinel
          /\ d.codeIndex # 0)
          => last.err = ErrUnexpectedEOD
    /\ (decoded.called /\ decoded.src = "data" /\ ~decoded.reduced
          /\ HasSentinel(data, opts.sentinel)
          /\ Owed(SubSeq(data, 1, FirstSentinel(data, opts.sentinel) - 1),
                  opts.sentinel) # 0)
          => decoded.err = ErrUnexpectedEOD

\* WriteByte has met a sentinel byte inside a group, under a non-zero
\* sentinel.
UnexpectedEODReached ==
    /\ harness = "feed"
    /\ ~opts.reduced
    /\ opts.sentinel # Delimiter
    /\ LastCall("Decoder.WriteByte")
    /\ last.arg[1] = opts.sentinel
    /\ last.pre.codeIndex # 0
    /\ last.err = ErrUnexpectedEOD

\* The data bytes of the groups ws, in order: each group without its first
\* byte.
DataBytes(ws) == Concat([i \in 1 .. Len(ws) |-> Tail(ws[i])])

\* C11: under a non-zero sentinel s (not reduced, no delimiter on close), the
\* data bytes of the groups the Encoder has written for a payload are the
\* payload bytes other than s, each with its value unchanged.
PayloadUntouched ==
    (harness = "buffer" /\ pc = "closed" /\ opts.sentinel # Delimiter
       /\ ~opts.reduced /\ ~opts.delimiterOnClose)
        => DataBytes(e.w.writes) = SelectSeq(data, LAMBDA b : b # opts.sentinel)

\* C12: a successful WriteByte(c) ends the current group without storing c
\* exactly when c equals the configured sentinel.
GroupEndsAtSentinel ==
    (harness = "buffer" /\ LastCall("Encoder.WriteByte") /\ last.err = Nil)
        => (last.arg[1] = opts.sentinel
              <=> /\ e.buf = <<1>>
                  /\ Len(e.w.writes) > Len(last.pre.w.writes))

\* Every byte of p XORed with s.
XorAll(p, s) == [i \in 1 .. Len(p) |-> BitXor(p[i], s)]

\* The options o with the default sentinel in place of the configured one.
DefaultSentinel(o, reduced) == Options([o EXCEPT !.sentinel = Delimiter], reduced)

Max(a, b) == IF a >= b THEN a ELSE b
CeilDiv(a, b) == (a + b - 1) \div b

\* C15: not reduced, any sentinel, no delimiter on close: the encoding of a
\* payload of n bytes has at most n + max(1, ceil(n / 254)) bytes.
OverheadBound ==
    (encoded[FALSE].called /\ ~opts.delimiterOnClose)
        => Len(encoded[FALSE].bytes)
              <= Len(data) + Max(1, CeilDiv(Len(data), FullCode - 1))

\* A payload of 255 bytes has been encoded into 257 bytes: the bound is met.
OverheadBoundReached ==
    /\ encoded[FALSE].called
    /\ ~opts.delimiterOnClose
    /\ Len(data) = FullCode
    /\ Len(encoded[FALSE].bytes) = Len(data) + 2

\* C16: under the default sentinel Encode of the empty payload returns [0x01],
\* and Decode of [0x01] returns the empty payload and a nil error, the Decoder
\* writing nothing to its sink.
EmptyPayload ==
    /\ (encoded[FALSE].called /\ data = <<>> /\ opts.sentinel = Delimiter
          /\ ~opts.delimiterOnClose)
          => encoded[FALSE].bytes = <<1>> /\ encoded[FALSE].err = Nil
    /\ (decoded.called /\ decoded.input = <<1>> /\ opts.sentinel = Delimiter)
          => /\ decoded.bytes = <<>>
             /\ decoded.err = Nil
             /\ DecoderWrite(NewDecoder(NewBuffer, Options(opts, decoded.reduced)),
                             decoded.input).d.w.writes = <<>>

\* The empty payload has been encoded and its encoding [0x01] decoded.
EmptyPayloadReached ==
    /\ DecodedFrom(FALSE, FALSE, FALSE)
    /\ opts.sentinel = Delimiter
    /\ ~opts.delimiterOnClose
    /\ data = <<>>
    /\ decoded.input = <<1>>
    /\ decoded.bytes = <<>>

\* p holds no zero byte.
ZeroFree(p) == ~HasSentinel(p, Delimiter)

\* C17: default sentinel, not reduced, a payload of non-zero bytes: 254 bytes
\* are written at Close as one group <<0xff>> \o payload and nothing else; the
\* 254 bytes stay pending until then; the 255th byte makes the Encoder write
\* that full group and start a second one, written at Close as [0x02, b].
FullGroup ==
    (harness = "buffer" /\ opts.sentinel = Delimiter /\ ~opts.reduced
       /\ ~opts.delimiterOnClose /\ ZeroFree(data) /\ pc \in {"open", "closed"})
        => /\ (pc = "open" /\ Len(payload) = FullCode - 1)
                 => e.w.writes = <<>> /\ e.buf = <<FullCode>> \o payload
           /\ (pc = "closed" /\ Len(data) = FullCode - 1)
                 => e.w.writes = << <<FullCode>> \o data >>
           /\ (pc = "open" /\ Len(payload) = FullCode)
                 => /\ e.w.writes = << <<FullCode>> \o SubSeq(payload, 1, FullCode - 1) >>
                    /\ e.buf = <<2, payload[FullCode]>>
           /\ (pc = "closed" /\ Len(data) = FullCode)
                 => e.w.writes = << <<FullCode>> \o SubSeq(data, 1, FullCode - 1),
                                    <<2, data[FullCode]>> >>

\* Close has written the second group of a payload of 255 non-zero bytes.
FullGroupReached ==
    /\ harness = "buffer"
    /\ opts.sentinel = Delimiter
    /\ ~opts.reduced
    /\ ~opts.delimiterOnClose
    /\ ZeroFree(data)
    /\ pc = "closed"
    /\ Len(data) = FullCode
    /\ Len(e.w.writes) = 2

\* C18: default sentinel, payload a \o <<0>> \o b with a and b free of zeros
\* and shorter than 254 bytes: Encode returns [len(a)+1] \o a \o [len(b)+1] \o b,
\* and Decode of that returns the payload and a nil error.
EmbeddedZero ==
    (opts.sentinel = Delimiter /\ ~opts.delimiterOnClose /\ HasSentinel(data, Delimiter)
       /\ ZeroFree(SubSeq(data, FirstSentinel(data, Delimiter) + 1, Len(data)))
       /\ FirstSentinel(data, Delimiter) - 1 < FullCode - 1
       /\ Len(data) - FirstSentinel(data, Delimiter) < FullCode - 1)
        => /\ encoded[FALSE].called
                 => encoded[FALSE].bytes
                       = <<FirstSentinel(data, Delimiter)>>
                         \o SubSeq(data, 1, FirstSentinel(data, Delimiter) - 1)
                         \o <<Len(data) - FirstSentinel(data, Delimiter) + 1>>
                         \o SubSeq(data, FirstSentinel(data, Delimiter) + 1, Len(data))
           /\ DecodedFrom(FALSE, FALSE, FALSE)
                 => decoded.bytes = data /\ decoded.err = Nil

\* 253 non-zero bytes followed by a zero have been encoded and decoded.
EmbeddedZeroReached ==
    /\ DecodedFrom(FALSE, FALSE, FALSE)
    /\ opts.sentinel = Delimiter
    /\ ~opts.delimiterOnClose
    /\ Len(data) = FullCode - 1
    /\ data[Len(data)] = Delimiter
    /\ ZeroFree(SubSeq(data, 1, Len(data) - 1))
    /\ encoded[FALSE].bytes[1] = FullCode - 1
    /\ decoded.bytes = data

\* What the writer w returned to the calls made on it since it was in the
\* state pre.
SinkResults(w, pre) == SubSeq(w.log, Len(pre.log) + 1, Len(w.log))

\* C19: an Encoder operation (WriteByte, Write, Close) returns an error only
\* when a write on its writer failed in that call, the error is then the one
\* the writer returned, and that failed write is the last one the call made;
\* on a writer that fails on every write, Close never returns nil, so Write
\* followed by Close ends with the writer's error for every payload.
SinkErrorVerbatim ==
    (harness = "limited" /\ last.called)
        => /\ last.err \in {Nil, e.w.Err}
           /\ last.err # Nil
                <=> \E i \in 1 .. Len(SinkResults(e.w, last.pre.w)) :
                        SinkResults(e.w, last.pre.w)[i] # Nil
           /\ \A i \in 1 .. Len(SinkResults(e.w, last.pre.w)) :
                    SinkResults(e.w, last.pre.w)[i] # Nil
                        => i = Len(SinkResults(e.w, last.pre.w))
           /\ (e.w.N = 0 /\ e.w.writes = <<>>)
                => /\ pc # "closed"
                   /\ LastCall("Encoder.Close") => last.err = e.w.Err

\* On a writer that fails on every write, a Close with delimiter on close
\* that followed the writes of a whole payload, all of which returned nil, has
\* returned the writer's error after a single write.
SinkErrorVerbatimReached ==
    /\ harness = "limited"
    /\ e.w.N = 0
    /\ e.w.writes = <<>>
    /\ LastCall("Encoder.Close")
    /\ last.err = e.w.Err
    /\ Len(e.w.log) = 1
    /\ opts.delimiterOnClose
    /\ payload = data
    /\ Len(data) = MaxLen

\* A new Decoder on a writer that fails on every write has been handed, in
\* one Write, all of what Encode returned for a non-empty payload (same
\* sentinel, not reduced).
FedWholeToFailing ==
    /\ harness = "feedlimited"
    /\ ~opts.reduced
    /\ data # Encode(<<>>, StreamOptions).bytes
    /\ LastCall("Decoder.Write")
    /\ last.arg = data
    /\ last.pre = NewDecoder(NewLimitedWriter(0, d.w.Err), StreamOptions)

\* C20: for every non-empty payload x and every sentinel, Write of Encode(x)
\* on a Decoder whose writer fails on every write returns the writer's error;
\* exactly one write on the writer was attempted, and the bytes behind the
\* one that raised the error were not processed.
DecoderSinkError ==
    FedWholeToFailing
        => /\ last.err = d.w.Err
           /\ Len(d.w.log) = 1
           /\ last.n < Len(data)
           /\ d = DecoderWrite(last.pre, SubSeq(data, 1, last.n + 1)).d

\* The encoding of a payload of MaxLen bytes under sentinel 0xff has been
\* written to such a Decoder, and Write has returned io.EOF at its second
\* byte.
DecoderSinkErrorReached ==
    /\ FedWholeToFailing
    /\ opts.sentinel = 255
    /\ Len(data) = MaxLen + 1
    /\ last.err = "EOF"
    /\ last.n = 1

\* The slices written to the writer w since it was in the state pre.
NewWrites(w, pre) == SubSeq(w.writes, Len(pre.writes) + 1, Len(w.writes))

\* No slice of ws holds the byte s.
NoSentinelIn(ws, s) == \A i \in 1 .. Len(ws) : ~HasSentinel(ws[i], s)

\* C21: with delimiter on close, a Close that returns nil has written the
\* final group and then exactly one slice of one byte, the sentinel, and the
\* group holds no sentinel; a WriteByte or Write never writes a sentinel byte;
\* without the option no slice written by the Encoder holds a sentinel byte.
DelimiterOnClose ==
    (harness = "buffer" /\ last.called)
        => /\ (LastCall("Encoder.Close") /\ opts.delimiterOnClose)
                => /\ Len(NewWrites(e.w, last.pre.w)) = 2
                   /\ NewWrites(e.w, last.pre.w)[2] = <<opts.sentinel>>
                   /\ ~HasSentinel(NewWrites(e.w, last.pre.w)[1], opts.sentinel)
           /\ (LastCall("Encoder.Close") /\ ~opts.delimiterOnClose)
                => Len(NewWrites(e.w, last.pre.w)) = 1
           /\ ~LastCall("Encoder.Close")
                => NoSentinelIn(NewWrites(e.w, last.pre.w), opts.sentinel)
           /\ ~opts.delimiterOnClose => NoSentinelIn(e.w.writes, opts.sentinel)

\* A frame of 255 bytes 0xff has been closed under sentinel 0xff with
\* delimiter on close: a full group, the final group and the sentinel.
DelimiterOnCloseReached ==
    /\ harness = "buffer"
    /\ LastCall("Encoder.Close")
    /\ opts.delimiterOnClose
    /\ opts.sentinel = 255
    /\ data = Run(255, FullCode)
    /\ Len(e.w.writes) = 3
    /\ e.w.writes[3] = <<255>>

\* The number of data bytes of the group g.
GroupData(g) == Len(g) - 1

\* C22 as stated: a group written by the Encoder of the delimiter API holds
\* at most 254 data bytes, and at most 253 when the delimiter is 0xff.
GroupSizeBySentinel ==
    harness = "delimiter"
        => \A i \in 1 .. Len(e.w.writes) :
              GroupData(e.w.writes[i])
                 <= IF opts.sentinel = 255 THEN FullCode - 2 ELSE FullCode - 1

\* C22, amended: a group written by the Encoder of the delimiter API, and
\* the group it holds, have at most 254 data bytes whatever the delimiter,
\* 0xff included; a group of 254 data bytes has the length byte
\* maxCode(delimiter), 0xfe under delimiter 0xff and 0xff otherwise.
GroupSizeAnyDelimiter ==
    harness = "delimiter"
        => /\ GroupData(e.buf) <= FullCode - 1
           /\ \A i \in 1 .. Len(e.w.writes) :
                 /\ GroupData(e.w.writes[i]) <= FullCode - 1
                 /\ GroupData(e.w.writes[i]) = FullCode - 1
                       <=> e.w.writes[i][1] = maxCode(opts.sentinel)

\* Under delimiter 0xff the Encoder has written a group of 254 data bytes,
\* with the length byte 0xfe.
GroupSizeAnyDelimiterReached ==
    /\ harness = "delimiter"
    /\ opts.sentinel = 255
    /\ Len(e.w.writes) >= 1
    /\ GroupData(e.w.writes[1]) = FullCode - 1
    /\ e.w.writes[1][1] = 254

\* What a new Decoder of the delimiter API makes of the length byte c.
OnLengthByte(c, delimiter) ==
    DelimiterDecoderWriteByte(NewDecoderWithDelimiter(NewBuffer, delimiter), c)

\* The group g does not start with the delimiter, and a Decoder that reads
\* its length byte then expects as many data bytes as g holds.
SkipCompensated(g, delimiter) ==
    /\ g[1] # delimiter
    /\ OnLengthByte(g[1], delimiter).err = Nil
    /\ OnLengthByte(g[1], delimiter).d.codeIndex = GroupData(g)

\* C23: for every delimiter, the group the Encoder of the delimiter API
\* holds (0 to 254 data bytes) and every group it has written start with a
\* length byte other than the delimiter, from which the Decoder expects
\* exactly the data bytes of the group; and DecodeWithDelimiter of what
\* EncodeWithDelimiter returned is the payload, with nil errors.
LengthByteSkip ==
    harness = "delimiter"
        => /\ SkipCompensated(e.buf, opts.sentinel)
           /\ \A i \in 1 .. Len(e.w.writes) :
                 SkipCompensated(e.w.writes[i], opts.sentinel)
           /\ encoded[FALSE].called => encoded[FALSE].err = Nil
           /\ decoded.called => decoded.err = Nil /\ decoded.bytes = data

\* Under delimiter 3 a payload of 255 bytes has made the round trip; its
\* first group holds 254 data bytes behind the length byte 0xff, one more
\* than the count.
LengthByteSkipReached ==
    /\ harness = "delimiter"
    /\ opts.sentinel = 3
    /\ decoded.called
    /\ decoded.bytes = data
    /\ Len(data) = FullCode
    /\ encoded[FALSE].bytes[1] = FullCode
    /\ GroupData(e.w.writes[1]) = FullCode - 1

\* p is a prefix of q.
IsPrefix(p, q) == Len(p) <= Len(q) /\ SubSeq(q, 1, Len(p)) = p

\* The Decoder at the read end of the pipe has written a prefix of the
\* payload of the current frame.
EmittedPrefix == (harness = "stream" /\ ~opts.reduced) => IsPrefix(Bytes(d.w), data)

\* Within a frame the bytes a Decoder has written only grow.
EmittedGrows ==
    (harness = "stream" /\ ~opts.reduced /\ nframes' = nframes)
        => IsPrefix(Bytes(d.w), Bytes(d.w)')

\* C24: not reduced, a Decoder fed what an Encoder writes for the payload x,
\* in whatever pieces it arrives and however far it has got, has written a
\* prefix of x to its sink; and what it has written only grows.
DecodeEmitsPrefix == []EmittedPrefix /\ [][EmittedGrows]_vars

\* The Decoder has been handed the first two bytes of the encoding of a
\* payload with a zero in second place, under sentinel 0xff, and has written
\* the first byte of the payload but not yet the zero.
DecodeEmitsPrefixReached ==
    /\ harness = "stream"
    /\ ~opts.reduced
    /\ opts.sentinel = 255
    /\ Len(data) = MaxLen
    /\ data[2] = Delimiter
    /\ data[1] # Delimiter
    /\ LastCall("Decoder.Write")
    /\ last.err = Nil
    /\ Bytes(d.w) = <<data[1]>>
    /\ ~NeedsMoreData(d)

\* A new Decoder after one Write of the whole of p.
WholeDecoderWrite(p) == DecoderWrite(NewDecoder(NewBuffer, StreamOptions), p).d

RECURSIVE ByteByByte(_, _, _)
\* The Decoder dd after WriteByte on p[i], p[i + 1], ... one call each.
ByteByByte(dd, p, i) ==
    IF i > Len(p) THEN dd
    ELSE ByteByByte(DecoderWriteByte(dd, p[i]).d, p, i + 1)

\* The Decoders a and b are in the same state and have written the same.
SameDecoder(a, b) ==
    /\ a.code = b.code
    /\ a.codeIndex = b.codeIndex
    /\ Bytes(a.w) = Bytes(b.w)

\* C25: a Decoder that has been fed a sentinel-free byte sequence in any
\* mixture of Write calls on consecutive chunks and WriteByte calls is in
\* the state (code, codeIndex), and has written the bytes, of a Decoder fed
\* the sequence in one Write and of one fed it byte by byte through
\* WriteByte; no call has returned an error.
IncrementalDecoder ==
    (harness = "feed" /\ pc = "open" /\ ~HasSentinel(payload, opts.sentinel))
        => /\ SameDecoder(d, WholeDecoderWrite(payload))
           /\ SameDecoder(d, ByteByByte(NewDecoder(NewBuffer, StreamOptions),
                                        payload, 1))
           /\ last.called => last.err = Nil /\ last.n = Len(last.arg)

\* Under sentinel 0xff a group of two data bytes has been fed in two Write
\* calls, the first ending behind the first data byte.
IncrementalDecoderReached ==
    /\ harness = "feed"
    /\ pc = "open"
    /\ opts.sentinel = 255
    /\ payload = <<BitXor(3, 255), BitXor(1, 255), BitXor(2, 255)>>
    /\ LastCall("Decoder.Write")
    /\ Len(last.arg) = 1
    /\ last.pre.codeIndex = 1
    /\ Len(last.pre.w.writes) = 1
    /\ d.codeIndex = 0
    /\ Bytes(d.w) = <<1, 2>>

\* The bytes of p before its first sentinel byte, and those behind it.
BeforeSentinel(p, s) == SubSeq(p, 1, FirstSentinel(p, s) - 1)
BehindSentinel(p, s) == SubSeq(p, FirstSentinel(p, s) + 1, Len(p))

\* C26: WriteByte on a sentinel byte while codeIndex is 0 returns EOD,
\* writes nothing and leaves code and codeIndex as NewDecoder sets them
\* (0xff and 0); the bytes that follow the sentinel are then decoded as by a
\* new Decoder: same code, same codeIndex, and the same bytes written behind
\* those of the frame that ended.
GracefulReset ==
    (harness = "feed" /\ pc = "open")
        => /\ (LastCall("Decoder.WriteByte") /\ last.arg = <<opts.sentinel>>
                 /\ last.pre.codeIndex = 0)
              => /\ last.err = EOD
                 /\ d.code = NewDecoder(NewBuffer, StreamOptions).code
                 /\ d.codeIndex = NewDecoder(NewBuffer, StreamOptions).codeIndex
                 /\ d = NewDecoder(last.pre.w, StreamOptions)
           /\ (HasSentinel(payload, opts.sentinel)
                 /\ ~HasSentinel(BehindSentinel(payload, opts.sentinel), opts.sentinel)
                 /\ ~NeedsMoreData(WholeDecoderWrite(BeforeSentinel(payload, opts.sentinel))))
              => /\ d.code = WholeDecoderWrite(BehindSentinel(payload, opts.sentinel)).code
                 /\ d.codeIndex
                      = WholeDecoderWrite(BehindSentinel(payload, opts.sentinel)).codeIndex
                 /\ Bytes(d.w)
                      = Bytes(WholeDecoderWrite(BeforeSentinel(payload, opts.sentinel)).w)
                        \o Bytes(WholeDecoderWrite(BehindSentinel(payload, opts.sentinel)).w)

\* Under sentinel 3 a frame that ends in an empty group has been ended by
\* WriteByte on the sentinel, and the length byte of the next frame has been
\* read without a zero being written for it.
GracefulResetReached ==
    /\ harness = "feed"
    /\ pc = "open"
    /\ opts.sentinel = 3
    /\ Len(payload) = MaxLen
    /\ payload[2] = 3
    /\ payload[1] = BitXor(1, 3)
    /\ payload[3] = BitXor(2, 3)
    /\ last.called
    /\ last.err = Nil
    /\ d.codeIndex = 1
    /\ Bytes(d.w) = <<>>

\* C27: not reduced, a WriteByte that returns ErrUnexpectedEOD leaves the
\* Decoder, its sink included, as it was before the call, and a Write that
\* returns it leaves the Decoder as it was before the offending byte;
\* NeedsMoreData stays true; the bytes that follow the sentinel are taken as
\* if the sentinel had not been there, the next one as a data byte of the
\* interrupted group.
UnexpectedEODKeepsState ==
    (harness = "feed" /\ pc = "open" /\ ~opts.reduced)
        => /\ (last.called /\ last.err = ErrUnexpectedEOD)
              => /\ NeedsMoreData(d)
                 /\ LastCall("Decoder.WriteByte") => d = last.pre
                 /\ LastCall("Decoder.Write")
                      => d = DecoderWrite(last.pre, SubSeq(last.arg, 1, last.n)).d
           /\ (HasSentinel(payload, opts.sentinel)
                 /\ ~HasSentinel(BehindSentinel(payload, opts.sentinel), opts.sentinel)
                 /\ NeedsMoreData(WholeDecoderWrite(BeforeSentinel(payload, opts.sentinel))))
              => d = DecoderWrite(
                        WholeDecoderWrite(BeforeSentinel(payload, opts.sentinel)),
                        BehindSentinel(payload, opts.sentinel)).d

\* Under sentinel 0xff a group that owes one data byte has been interrupted
\* by a sentinel, WriteByte has returned ErrUnexpectedEOD, and the byte
\* behind the sentinel has been written to the sink as the data byte owed.
UnexpectedEODKeepsStateReached ==
    /\ harness = "feed"
    /\ pc = "open"
    /\ ~opts.reduced
    /\ opts.sentinel = 255
    /\ payload = <<BitXor(2, 255), 255, BitXor(3, 255)>>
    /\ LastCall("Decoder.WriteByte")
    /\ last.err = Nil
    /\ NeedsMoreData(last.pre)
    /\ last.pre.w.writes = <<>>
    /\ ~NeedsMoreData(d)
    /\ Bytes(d.w) = <<3>>

\* The group an Encoder holds when no byte is pending: the length byte 1.
EmptyGroup == <<1>>

\* C28: whatever group the Encoder holds, a flush of it that succeeds, final
\* or not, leaves the empty group pending; after a Close that returned nil,
\* and after a WriteByte that ended a group at a zero, the Encoder holds the
\* empty group; once the caller has emptied the buffer, a reused Encoder is
\* equal to a new one, and what it writes for the next frame is what Encode
\* returns for that frame; a Close on an Encoder that holds the empty group
\* writes what Encode returns for the empty payload.
EncoderResetAfterFlush ==
    (harness = "buffer" /\ pc \in {"open", "closed", "idle"})
        => /\ EncoderFinish(e, FALSE).e.buf = EmptyGroup
           /\ EncoderFinish(e, TRUE).e.buf = EmptyGroup
           /\ LastCall("Encoder.Close") => e.buf = EmptyGroup
           /\ (LastCall("Encoder.WriteByte") /\ last.arg = <<Delimiter>>)
                => e.buf = EmptyGroup
           /\ pc = "idle" => e = NewEncoder(NewBuffer, StreamOptions)
           /\ (pc = "closed" /\ nframes > 0)
                => Bytes(e.w) = Encode(data, StreamOptions).bytes
           /\ (LastCall("Encoder.Close") /\ last.pre.buf = EmptyGroup)
                => Concat(NewWrites(e.w, last.pre.w))
                     = Encode(<<>>, StreamOptions).bytes

\* A reused Encoder has closed its second frame, of MaxLen bytes ending in a
\* zero, under sentinel 0xff: the Close found the empty group pending.
EncoderResetAfterFlushReached ==
    /\ harness = "buffer"
    /\ pc = "closed"
    /\ nframes = 1
    /\ opts.sentinel = 255
    /\ Len(data) = MaxLen
    /\ data[MaxLen] = Delimiter
    /\ data[1] # Delimiter
    /\ LastCall("Encoder.Close")
    /\ last.pre.buf = EmptyGroup
    /\ Bytes(e.w) = Encode(data, StreamOptions).bytes

\* The Decoder dd after WriteByte on each of the first n bytes of p.
AfterBytes(dd, p, n) == ByteByByte(dd, SubSeq(p, 1, n), 1)

\* WriteByte returns nil on each of the first n bytes of p, taken in order
\* from the Decoder dd.
AllAccepted(dd, p, n) ==
    \A j \in 0 .. (n - 1) :
        DecoderWriteByte(AfterBytes(dd, p, j), p[j + 1]).err = Nil

\* C29: Decoder.Write on p returns (Len(p), nil) if WriteByte returns nil on
\* every byte; otherwise it returns (i, err) where p[i] (0-based) is the first
\* byte WriteByte does not return nil on, a sentinel that brings EOD included,
\* and err is what WriteByte returned there; the Decoder is left as that
\* WriteByte left it, so that no byte behind p[i] has been processed.
WriteStopsAtFirstSignal ==
    (harness = "feed" /\ LastCall("Decoder.Write"))
        => /\ last.n <= Len(last.arg)
           /\ AllAccepted(last.pre, last.arg, last.n)
           /\ last.err = Nil
                => /\ last.n = Len(last.arg)
                   /\ d = AfterBytes(last.pre, last.arg, last.n)
           /\ last.err # Nil
                => /\ last.n < Len(last.arg)
                   /\ last.err \in {EOD, ErrUnexpectedEOD}
                   /\ last.arg[last.n + 1] = opts.sentinel
                   /\ last.err = DecoderWriteByte(
                                    AfterBytes(last.pre, last.arg, last.n),
                                    last.arg[last.n + 1]).err
                   /\ d = DecoderWriteByte(
                             AfterBytes(last.pre, last.arg, last.n),
                             last.arg[last.n + 1]).d
                   /\ Bytes(d.w) = Bytes(AfterBytes(last.pre, last.arg, last.n).w)
                                   \o (IF opts.reduced /\ last.err = EOD
                                          /\ NeedsMoreData(AfterBytes(last.pre, last.arg,
                                                                      last.n))
                                       THEN <<AfterBytes(last.pre, last.arg, last.n).code>>
                                       ELSE <<>>)

\* Under sentinel 3, one Write of an empty frame, its sentinel and the
\* length byte of a next frame has returned (1, EOD), and the Decoder has not
\* read the length byte.
WriteStopsAtFirstSignalReached ==
    /\ harness = "feed"
    /\ opts.sentinel = 3
    /\ LastCall("Decoder.Write")
    /\ last.arg = <<BitXor(1, 3), 3, BitXor(2, 3)>>
    /\ last.n = 1
    /\ last.err = EOD
    /\ ~NeedsMoreData(d)
    /\ d.code = FullCode

\* What Write of the first n bytes of p returns on the Encoder ee.
Absorbed(ee, p, n) == EncoderWrite(ee, SubSeq(p, 1, n))

\* C30: an Encoder.Write on p that returns an error returns (i, err) with
\* i < Len(p) and err the error of the sink; a Write of p[0..i) alone would
\* have returned nil, and the Encoder is left as that Write would leave it
\* but for the one failed write recorded by the sink and for the sentinel
\* mask on the pending group: the sink holds nothing more and the pending
\* group has no byte more, so p[i] is neither pending nor written.  A Write
\* that returns nil returns Len(p).
WriteCountOnFailure ==
    (harness = "limited" /\ LastCall("Encoder.Write"))
        => /\ last.err = Nil => last.n = Len(last.arg)
           /\ last.err # Nil
                => /\ last.n < Len(last.arg)
                   /\ last.err = e.w.Err
                   /\ Absorbed(last.pre, last.arg, last.n).err = Nil
                   /\ Absorbed(last.pre, last.arg, last.n + 1).err = last.err
                   /\ e.w.writes = Absorbed(last.pre, last.arg, last.n).e.w.writes
                   /\ Len(e.buf) = Len(Absorbed(last.pre, last.arg, last.n).e.buf)
                   /\ e = [Absorbed(last.pre, last.arg, last.n).e EXCEPT
                             !.buf = Masked(@, opts.sentinel),
                             !.w.log = Append(@, e.w.Err)]

\* Under sentinel 0xff a Write of MaxLen bytes with a zero in second place, on
\* a writer that fails on every write, has returned (1, io.EOF): the first
\* byte is pending, the zero is not represented.
WriteCountOnFailureReached ==
    /\ harness = "limited"
    /\ opts.sentinel = 255
    /\ LastCall("Encoder.Write")
    /\ Len(last.arg) = MaxLen
    /\ last.arg[1] # Delimiter
    /\ last.arg[2] = Delimiter
    /\ last.n = 1
    /\ last.err = "EOF"
    /\ e.w.writes = <<>>
    /\ e.buf = Masked(<<2, last.arg[1]>>, 255)

\* The Encoder with the options of e but not reduced, after one Write of p.
StandardWrite(p) == EncoderWrite(NewEncoder(NewBuffer, Options(opts, FALSE)), p).e

\* The group g, as the Encoder holds it, is one that Close shrinks.
Shrinks(g) == Len(g) > 1 /\ g[1] < g[Len(g)]

\* The group w with its first byte replaced by its last, which is left out.
Shrunk(w) == <<w[Len(w)]>> \o SubSeq(w, 2, Len(w) - 1)

\* C31: in reduced mode, what the Encoder has written before Close is what
\* the standard Encoder writes; the group written by Close is shrunk iff it
\* has a data byte and its length byte is less than its last data byte; the
\* shrunk group is the standard group with its first byte replaced by its
\* last, which is left out, and the reduced encoding is one byte shorter than
\* the standard one; a group that is not shrunk is written as it stands and
\* the two encodings are equal.
ReducedShrink ==
    (harness = "buffer" /\ opts.reduced)
        => /\ pc = "open" => e.w.writes = StandardWrite(payload).w.writes
           /\ LastCall("Encoder.Close")
                => /\ last.pre.w.writes = StandardWrite(data).w.writes
                   /\ Shrinks(last.pre.buf)
                        => /\ NewWrites(e.w, last.pre.w)[1]
                                = Shrunk(Masked(last.pre.buf, opts.sentinel))
                           /\ Len(Bytes(e.w))
                                = Len(Encode(data, Options(opts, FALSE)).bytes) - 1
                   /\ ~Shrinks(last.pre.buf)
                        => /\ NewWrites(e.w, last.pre.w)[1]
                                = Masked(last.pre.buf, opts.sentinel)
                           /\ Bytes(e.w) = Encode(data, Options(opts, FALSE)).bytes

\* In reduced mode a frame of 255 bytes 0xff has been closed: the full group
\* was written as it stands and the final group [2, 0xff] as one byte.
ReducedShrinkReached ==
    /\ harness = "buffer"
    /\ opts.reduced
    /\ ~opts.delimiterOnClose
    /\ opts.sentinel = Delimiter
    /\ LastCall("Encoder.Close")
    /\ data = Run(255, FullCode)
    /\ Len(e.w.writes) = 2
    /\ Len(e.w.writes[1]) = FullCode
    /\ e.w.writes[2] = <<255>>

\* A reduced Decoder is being fed the reduced encoding of a payload whose
\* final group the Encoder has shrunk.
FedShrunk ==
    /\ harness = "feedencoded"
    /\ opts.reduced
    /\ encoded[TRUE].called
    /\ Shrinks(StandardWrite(encoded[TRUE].of).buf)

\* All but the last byte of p.
Front(p) == SubSeq(p, 1, Len(p) - 1)

\* C32: reduced, with a final group that was shrunk: once the Decoder has
\* taken all encoded bytes it has written the payload but for its last byte
\* and needs more data; once it has taken the sentinel behind them, or has
\* been closed, with or without a sentinel before the Close, it has written
\* the payload, the last byte once; the call that takes the sentinel returns
\* EOD and Close returns nil.
ReducedLastByte ==
    FedShrunk
        => /\ (pc = "open" /\ payload = encoded[TRUE].bytes)
                => /\ Bytes(d.w) = Front(encoded[TRUE].of)
                   /\ NeedsMoreData(d)
           /\ (pc = "open" /\ payload = encoded[TRUE].bytes \o <<opts.sentinel>>)
                => /\ Bytes(d.w) = encoded[TRUE].of
                   /\ Len(last.arg) > 0 => last.err = EOD
                   /\ ~NeedsMoreData(d)
           /\ pc = "closed"
                => /\ Bytes(d.w) = encoded[TRUE].of
                   /\ last.err = Nil

\* Under sentinel 0xff the reduced encoding of a payload of MaxLen bytes and
\* the sentinel behind it have been fed, and the Decoder has been closed: the
\* Close found nothing left to write.
ReducedLastByteReached ==
    /\ FedShrunk
    /\ opts.sentinel = 255
    /\ Len(encoded[TRUE].of) = MaxLen
    /\ Len(data) = MaxLen + 1
    /\ data[Len(data)] = 255
    /\ pc = "closed"
    /\ LastCall("Decoder.Close")
    /\ last.pre.w = d.w
    /\ Bytes(d.w) = encoded[TRUE].of

\* The options of the caller, not reduced and without delimiter on close.
PlainOptions == Options([opts EXCEPT !.delimiterOnClose = FALSE], FALSE)

\* The number of bytes of p behind its last zero byte.
TrailingRun(p) ==
    Len(p) - Cardinality({i \in 1 .. Len(p) :
                            \E j \in i .. Len(p) : p[j] = Delimiter})

\* The number of bytes of p that belong to no completed group: none right
\* behind a zero byte; otherwise what is left of the trailing run once its
\* full groups of FullCode - 1 bytes have been flushed, a full group being
\* flushed when the next byte arrives.
PendingData(p) ==
    IF TrailingRun(p) = 0 THEN 0
    ELSE ((TrailingRun(p) - 1) % (FullCode - 1)) + 1

ReadLengthByte ==
    /\ LastCall("Decoder.WriteByte")
    /\ last.pre.codeIndex = 0
    /\ last.arg[1] # opts.sentinel

\* C34: on reading a length byte the Decoder writes one byte with the value of
\* the sentinel if the length byte of the previous group, d.code, is not 0xff,
\* the value it holds when there is no previous group in the frame and after a
\* full group; otherwise it writes nothing.
SentinelReinserted ==
    (harness = "feed" /\ ReadLengthByte)
        => /\ last.pre.code # FullCode
                => NewWrites(d.w, last.pre.w) = <<<<opts.sentinel>>>>
           /\ last.pre.code = FullCode
                => NewWrites(d.w, last.pre.w) = <<>>

\* C35: every Decoder.WriteByte makes at most one write to the sink, and
\* every write the Decoder has made, from WriteByte, Write or Close, is one
\* byte long.
OneByteWrites ==
    harness = "feed"
        => /\ LastCall("Decoder.WriteByte")
                => Len(NewWrites(d.w, last.pre.w)) <= 1
           /\ LastCall("Decoder.Write")
                => Len(NewWrites(d.w, last.pre.w))
                      <= last.n + (IF last.err = Nil THEN 0 ELSE 1)
           /\ \A i \in 1 .. Len(d.w.writes) : Len(d.w.writes[i]) = 1

\* A reduced Decoder under sentinel 0xff has read a length byte, a data byte
\* and the sentinel, each by a WriteByte that made one write of one byte: the
\* Delimiter is not among them as the group is the first.
OneByteWritesReached ==
    /\ harness = "feed"
    /\ opts.reduced
    /\ opts.sentinel = 255
    /\ payload = <<BitXor(3, 255), BitXor(1, 255), 255>>
    /\ LastCall("Decoder.WriteByte")
    /\ last.err = EOD
    /\ d.w.writes = <<<<1>>, <<3>>>>
    /\ NewWrites(d.w, last.pre.w) = <<<<3>>>>

\* The length byte of a group of n data bytes, counted in the integers: one
\* per data byte from 0, the value of the delimiter being stepped over.
CountedLength(n, delimiter) == IF n >= delimiter THEN n + 1 ELSE n

\* The length byte of the group g is the count of its data bytes and is no
\* more than maxCode.
LengthInRange(g, delimiter) ==
    /\ g[1] = CountedLength(GroupData(g), delimiter)
    /\ g[1] <= maxCode(delimiter)
    /\ g[1] # delimiter

\* C36: in the delimiter API the length byte of the pending group and of
\* every group written is the count of its data bytes with the delimiter
\* stepped over, and is no more than maxCode: no e.buf[0]++ has started from
\* maxCode, and a WriteByte that finds the length byte at maxCode writes the
\* group before it stores the byte.  The Decoder lowers codeIndex from a value
\* above 0 only: after a WriteByte that returned nil codeIndex is one less, in
\* the integers, than the count owed before or than the length byte read, and
\* codeIndex is never 0xff.
NoCounterWraps ==
    /\ harness = "delimiter"
         => /\ LengthInRange(e.buf, opts.sentinel)
            /\ \A i \in 1 .. Len(e.w.writes) :
                  LengthInRange(e.w.writes[i], opts.sentinel)
            /\ (LastCall("Encoder.WriteByte")
                  /\ last.pre.buf[1] = maxCode(opts.sentinel))
                  => /\ NewWrites(e.w, last.pre.w) # <<>>
                     /\ NewWrites(e.w, last.pre.w)[1] = last.pre.buf
                     /\ GroupData(e.buf) <= 1
    /\ harness = "feed"
         => /\ d.codeIndex < FullCode
            /\ (LastCall("Decoder.WriteByte") /\ last.err = Nil)
                  => d.codeIndex + 1
                        = IF last.pre.codeIndex > 0 THEN last.pre.codeIndex
                          ELSE BitXor(last.arg[1], opts.sentinel)

\* Under delimiter 0xfe the Encoder has stored the 254th byte of a run: the
\* length byte went from 0xfd over the delimiter to maxCode, 0xff.
NoCounterWrapsReached ==
    /\ harness = "delimiter"
    /\ opts.sentinel = 254
    /\ LastCall("Encoder.WriteByte")
    /\ last.pre.buf[1] = 253
    /\ e.buf[1] = FullCode
    /\ GroupData(e.buf) = FullCode - 1

\* The pending group of the Encoder: a length byte equal to the length of the
\* buffer, then non-zero data bytes, 255 bytes at most.
PendingGroup(buf) ==
    /\ Len(buf) \in 1 .. FullCode
    /\ buf[1] = Len(buf)
    /\ ZeroFree(Tail(buf))

\* The slice w, as written under sentinel s, is one group: 255 bytes at most,
\* none of them the sentinel, the first the length of the group or, for a
\* group shrunk in reduced mode, a byte above it.
SingleGroup(w, s, reduced) ==
    /\ Len(w) \in 1 .. FullCode
    /\ ~HasSentinel(w, s)
    \* the length byte as the Encoder held it
    /\ \/ BitXor(w[1], s) = Len(w)
       \/ reduced /\ BitXor(w[1], s) > Len(w)

\* C37 as stated: with a sink that does not fail, in every state the pending
\* group has 1 <= len(buf) <= 255, buf[0] == len(buf) and no zero data byte,
\* and every write to the sink is a single group of at most 255 bytes.
BufferAndWritesAreGroups ==
    harness = "buffer"
        => /\ PendingGroup(e.buf)
           /\ \A i \in 1 .. Len(e.w.writes) :
                 SingleGroup(e.w.writes[i], opts.sentinel, opts.reduced)

\* The i-th write of the frame is the sentinel byte that a Close with
\* delimiter on close writes behind the final group.
ClosingDelimiter(i) ==
    /\ opts.delimiterOnClose
    /\ pc = "closed"
    /\ i = Len(e.w.writes)
    /\ i > 1
    /\ e.w.writes[i] = <<opts.sentinel>>

\* C37, amended: with a sink that does not fail, in every state the pending
\* group has 1 <= len(buf) <= 255, buf[0] == len(buf) and no zero data byte,
\* and every write to the sink is a single group of at most 255 bytes, but
\* for the one sentinel byte that a Close with delimiter on close writes
\* behind the final group.
BufferInvariant ==
    harness = "buffer"
        => /\ PendingGroup(e.buf)
           /\ \A i \in 1 .. Len(e.w.writes) :
                 \/ SingleGroup(e.w.writes[i], opts.sentinel, opts.reduced)
                 \/ ClosingDelimiter(i)
           /\ \A i \in 1 .. Len(e.w.writes) : Len(e.w.writes[i]) <= FullCode

\* With delimiter on close under sentinel 0xff, a frame of 255 bytes has been
\* closed: a full group, the group of the last byte and the sentinel have
\* been written, and the pending group is empty again.
BufferInvariantReached ==
    /\ harness = "buffer"
    /\ opts.delimiterOnClose
    /\ ~opts.reduced
    /\ opts.sentinel = 255
    /\ pc = "closed"
    /\ Len(data) = FullCode
    /\ Len(e.w.writes) = 3
    /\ Len(e.w.writes[1]) = FullCode
    /\ Len(e.w.writes[2]) = 2
    /\ e.w.writes[3] = <<255>>
    /\ e.buf = <<1>>

\* The errors a Decoder reports for a frame that is cut short.
FrameErrors == {ErrUnexpectedEOD, ErrIncompleteFrame}

\* C38: a reduced Decoder on a buffer reports no malformed or truncated
\* frame: whatever the input, WriteByte and Write on a sentinel return EOD
\* and never ErrUnexpectedEOD, Close returns nil and never
\* ErrIncompleteFrame, and both leave codeIndex at 0; Decode with
\* WithReduced(true) returns neither error.
ReducedNeverMalformed ==
    /\ (harness = "feed" /\ opts.reduced /\ last.called)
          => /\ last.err \notin FrameErrors
             /\ last.err = EOD => d.codeIndex = 0
             /\ (LastCall("Decoder.WriteByte") /\ last.arg[1] = opts.sentinel)
                   => last.err = EOD
             /\ LastCall("Decoder.Close") => last.err = Nil /\ d.codeIndex = 0
    /\ (decoded.called /\ decoded.src = "data" /\ decoded.reduced)
          => decoded.err \notin FrameErrors

\* A reduced Decoder under sentinel 0xff has read the length byte 3 and then
\* the sentinel, two data bytes being owed: the length byte was written as a
\* data byte and the call returned EOD.
ReducedNeverMalformedReached ==
    /\ harness = "feed"
    /\ opts.reduced
    /\ opts.sentinel = 255
    /\ payload = <<BitXor(3, 255), 255>>
    /\ LastCall("Decoder.WriteByte")
    /\ last.pre.codeIndex = 2
    /\ last.err = EOD
    /\ Bytes(d.w) = <<3>>

\* C39: for every payload and every sentinel, Decode in reduced mode of what
\* Encode returned in standard mode (same sentinel, no delimiter on close)
\* returns the payload and a nil error.
ReducedDecodesStandard ==
    (DecodedFrom(FALSE, TRUE, FALSE) /\ ~opts.delimiterOnClose)
        => /\ encoded[FALSE].err = Nil
           /\ decoded.err = Nil
           /\ decoded.bytes = data

\* Under sentinel 0xff the standard encoding of a payload of three bytes that
\* ends on a byte above its length byte, which the reduced Encoder would have
\* shrunk, has been decoded in reduced mode.
ReducedDecodesStandardReached ==
    /\ DecodedFrom(FALSE, TRUE, FALSE)
    /\ ~opts.delimiterOnClose
    /\ opts.sentinel = 255
    /\ Len(data) = MaxLen
    /\ ZeroFree(data)
    /\ data[MaxLen] = 255
    /\ Len(decoded.input) = MaxLen + 1
    /\ decoded.bytes = data
    /\ decoded.err = Nil

\* The last call returned the error of a write on the sink.
SinkWriteFailed == last.called /\ last.err \in SinkErrors

\* The Encoder as it was before the call that failed: before the last call,
\* or, within a Write, before the WriteByte that failed.
EncoderBefore ==
    IF LastCall("Encoder.Write") THEN Absorbed(last.pre, last.arg, last.n).e
    ELSE last.pre

\* The Decoder as it was before the call that failed.
DecoderBefore ==
    IF LastCall("Decoder.Write")
    THEN DecoderWrite(last.pre, SubSeq(last.arg, 1, last.n)).d
    ELSE last.pre

\* The Encoder's pending group is what it was before the failing call.
EncoderUnchanged ==
    (harness = "limited" /\ SinkWriteFailed) => e.buf = EncoderBefore.buf

\* The Decoder's code and codeIndex are what they were before the failing
\* call.
DecoderUnchanged ==
    (harness = "feedlimited" /\ SinkWriteFailed)
        => /\ d.code = DecoderBefore.code
           /\ d.codeIndex = DecoderBefore.codeIndex

\* C40: when a write on the sink fails, the pending group of the Encoder,
\* for every sentinel and in reduced mode, and the code and codeIndex of the
\* Decoder are what they were before the failing call.
StateUnchangedOnFailure == EncoderUnchanged /\ DecoderUnchanged

====
